---- MODULE Spec2Model ----
(***************************************************************************)
(* Feeder ingestion service: the ingestion pipeline of                     *)
(* DataIngestionService.ingestData (validation, staleness check,           *)
(* transformation) and the storage layer of PostgresRepository             *)
(* (upsertAircraftState, insertAircraftStateHistory,                       *)
(* batchUpsertAircraftStates); the feeder SDK (FeederClient: submitBatch,   *)
(* queueAircraft, flushBatch) and the polling script built on it.          *)
(*                                                                         *)
(* Strings are sequences of one-character strings; an absent / null        *)
(* optional field is the empty tuple Null and a present value v is the     *)
(* one-element tuple <<v>>.                                                *)
(***************************************************************************)
EXTENDS Integers, Sequences, FiniteSets, TLC

VARIABLES
    now,                      \* wall clock, Unix seconds (Date.now() / NOW())
    aircraft_states,          \* table aircraft_states: icao24 -> row
    aircraft_states_history,  \* table aircraft_states_history: a set of rows
    feeder_stats,             \* table feeder_stats: <<feeder_id, date>> -> row
    reqs,                     \* the calls of ingestData / batchUpsertAircraftStates;
                              \* the field outage records, for the properties,
                              \* the downstream call that found the main service
                              \* unavailable
    failures,                 \* number of storage statements that have failed
    mergeLog,                 \* history variable: the upsert statements executed
    client,                   \* a FeederClient of the feeder SDK: its config,
                              \* queue, timer, clock (ms) and submitBatch calls
    poller                    \* the polling script around the SDK: its flags,
                              \* error count, clock (ms) and cycle in progress

vars == <<now, aircraft_states, aircraft_states_history, feeder_stats, reqs,
          failures, mergeLog, client, poller>>

\* the variables of the service
server == <<now, aircraft_states, aircraft_states_history, feeder_stats, reqs,
            failures, mergeLog>>

-----------------------------------------------------------------------------
(* Bounds of the model *)

MaxReq == 2          \* calls that may be in flight together
MaxTicks == 1        \* seconds the wall clock may advance
MaxFailures == 1     \* storage statements that may fail
batchSize == 1       \* config.dataProcessing.batchSize, scaled down from 50
maxRequests == 1     \* config.rateLimit.maxRequests, scaled down from 1000
MaxBatch == batchSize + 1   \* observations per submitted batch

(* Program constants *)

maxDataAgeSeconds == 300
feederSourcePriority == 30
StartTime == 86399   \* one second before the date changes

Null == <<>>
Some(v) == <<v>>
IsNull(x) == x = Null
Val(x) == x[1]

Feeders == {"f1", "f2"}
\* source priorities of the ingestion channels writing aircraft_states:
\* bulk source (20), feeder telemetry (30), live / manual override (40)
Priorities == {20, 30, 40}

-----------------------------------------------------------------------------
(* Character helpers *)

HexDigits == {"0","1","2","3","4","5","6","7","8","9",
              "a","b","c","d","e","f","A","B","C","D","E","F"}
OctalDigits == {"0","1","2","3","4","5","6","7"}
UpperLetters == <<"A","B","C","D","E","F","G","H","I","J","K","L","M",
                  "N","O","P","Q","R","S","T","U","V","W","X","Y","Z">>
LowerLetters == <<"a","b","c","d","e","f","g","h","i","j","k","l","m",
                  "n","o","p","q","r","s","t","u","v","w","x","y","z">>
Digits == {"0","1","2","3","4","5","6","7","8","9"}
AlphaNum == Digits \cup {UpperLetters[i] : i \in 1..26}
                   \cup {LowerLetters[i] : i \in 1..26}

ToLowerChar(c) ==
    IF \E i \in 1..26 : UpperLetters[i] = c
    THEN LowerLetters[CHOOSE i \in 1..26 : UpperLetters[i] = c]
    ELSE c

ToUpperChar(c) ==
    IF \E i \in 1..26 : LowerLetters[i] = c
    THEN UpperLetters[CHOOSE i \in 1..26 : LowerLetters[i] = c]
    ELSE c

toLowerCase(s) == [i \in 1..Len(s) |-> ToLowerChar(s[i])]
toUpperCase(s) == [i \in 1..Len(s) |-> ToUpperChar(s[i])]

RECURSIVE TrimLeft(_)
TrimLeft(s) == IF s # <<>> /\ Head(s) = " " THEN TrimLeft(Tail(s)) ELSE s

RECURSIVE TrimRight(_)
TrimRight(s) ==
    IF s # <<>> /\ s[Len(s)] = " " THEN TrimRight(SubSeq(s, 1, Len(s) - 1)) ELSE s

trim(s) == TrimRight(TrimLeft(s))

-----------------------------------------------------------------------------
(* Validator: VALIDATION_RULES and validateAircraftState *)

RuleLatitude == [min |-> -90, max |-> 90]
RuleLongitude == [min |-> -180, max |-> 180]
RuleAltitude == [min |-> -1500, max |-> 60000]
RuleVelocity == [min |-> 0, max |-> 1500]
RuleTrueTrack == [min |-> 0, max |-> 360]
RuleVerticalRate == [min |-> -100, max |-> 100]
RuleCategory == [min |-> 0, max |-> 19]
RulePositionSource == [min |-> 0, max |-> 3]

RuleIcao24(s) == Len(s) = 6 /\ \A i \in 1..Len(s) : s[i] \in HexDigits
RuleSquawk(s) == Len(s) = 4 /\ \A i \in 1..Len(s) : s[i] \in OctalDigits
RuleCallsign(s) == Len(s) \in 1..8 /\ \A i \in 1..Len(s) : s[i] \in AlphaNum

\* one range check of validateAircraftState: the field is skipped when it is
\* null / undefined, and violates the rule when it lies outside [min, max]
RangeError(x, rule, index, field) ==
    IF ~IsNull(x) /\ (Val(x) < rule.min \/ Val(x) > rule.max)
    THEN <<[index |-> index, field |-> field]>>
    ELSE <<>>

validateAircraftState(state, index) ==
    LET icaoErr ==
            IF state.icao24 = <<>> \/ ~RuleIcao24(state.icao24)
            THEN <<[index |-> index, field |-> "icao24"]>> ELSE <<>>
        squawkErr ==
            IF ~IsNull(state.squawk) /\ ~RuleSquawk(Val(state.squawk))
            THEN <<[index |-> index, field |-> "squawk"]>> ELSE <<>>
        callsignErr ==
            IF ~IsNull(state.callsign) /\ ~RuleCallsign(Val(state.callsign))
            THEN <<[index |-> index, field |-> "callsign"]>> ELSE <<>>
        timePosErr ==
            IF ~IsNull(state.time_position) /\ Val(state.time_position) < 0
            THEN <<[index |-> index, field |-> "time_position"]>> ELSE <<>>
        lastContactErr ==
            IF ~IsNull(state.last_contact) /\ Val(state.last_contact) < 0
            THEN <<[index |-> index, field |-> "last_contact"]>> ELSE <<>>
        errors ==
            icaoErr
            \o RangeError(state.latitude, RuleLatitude, index, "latitude")
            \o RangeError(state.longitude, RuleLongitude, index, "longitude")
            \o RangeError(state.baro_altitude, RuleAltitude, index, "baro_altitude")
            \o RangeError(state.geo_altitude, RuleAltitude, index, "geo_altitude")
            \o RangeError(state.velocity, RuleVelocity, index, "velocity")
            \o RangeError(state.true_track, RuleTrueTrack, index, "true_track")
            \o RangeError(state.vertical_rate, RuleVerticalRate, index, "vertical_rate")
            \o RangeError(state.category, RuleCategory, index, "category")
            \o RangeError(state.position_source, RulePositionSource, index,
                          "position_source")
            \o squawkErr \o callsignErr \o timePosErr \o lastContactErr
    IN [valid |-> errors = <<>>, errors |-> errors]

\* A states value is [array |-> BOOLEAN, items |-> sequence of observations]:
\* array is FALSE for a value that is not a list (items is then empty).
\* The index reported for an observation is its 0-based position.
RECURSIVE CollectErrors(_, _)
CollectErrors(states, k) ==
    IF k > Len(states.items) THEN <<>>
    ELSE validateAircraftState(states.items[k], k - 1).errors
         \o CollectErrors(states, k + 1)

IsArray(states) == states.array

validateAircraftStateBatch(states) ==
    IF ~IsArray(states)
    THEN [valid |-> FALSE, errors |-> <<[index |-> 0, field |-> "states"]>>]
    ELSE IF Len(states.items) = 0
    THEN [valid |-> FALSE, errors |-> <<[index |-> 0, field |-> "states"]>>]
    ELSE LET allErrors == CollectErrors(states, 1)
         IN [valid |-> allErrors = <<>>, errors |-> allErrors]

-----------------------------------------------------------------------------
(* Normalizer: transformToOpenSkyFormat *)

Falsy(x) == IsNull(x) \/ Val(x) = 0

\* a position source that is passed through unchecked
normalizePositionSourceUnchecked(state) ==
    IF IsNull(state.position_source) THEN Some(0) ELSE state.position_source

\* position_source: 0 when absent, and 0 again ('defaulting to 0') when it
\* lies outside 0..3
normalizePositionSource(state) ==
    LET ps0 == IF IsNull(state.position_source) THEN 0
               ELSE Val(state.position_source)
    IN IF ps0 < 0 \/ ps0 > 3 THEN Some(0) ELSE Some(ps0)

\* category: null when absent and when it lies outside 0..19
normalizeCategory(state) ==
    IF ~IsNull(state.category)
          /\ (Val(state.category) < 0 \/ Val(state.category) > 19)
    THEN Null ELSE state.category

\* The 19-item vector:
\*  1 icao24, 2 callsign, 3 origin_country, 4 time_position, 5 last_contact,
\*  6 longitude, 7 latitude, 8 baro_altitude, 9 on_ground, 10 velocity,
\*  11 true_track, 12 vertical_rate, 13 sensors, 14 geo_altitude, 15 squawk,
\*  16 spi, 17 position_source, 18 category, 19 created_at
transformToOpenSkyFormat(state, t) ==
    LET icao24 == trim(toLowerCase(state.icao24))
        callsign == IF IsNull(state.callsign) \/ Val(state.callsign) = <<>>
                    THEN Null
                    ELSE Some(toUpperCase(trim(Val(state.callsign))))
        time_position == IF Falsy(state.time_position) THEN Null
                         ELSE state.time_position
        last_contact == IF Falsy(state.last_contact) THEN t
                        ELSE Val(state.last_contact)
        geo_altitude == state.geo_altitude
        baro_altitude == IF IsNull(state.baro_altitude) /\ ~IsNull(geo_altitude)
                         THEN geo_altitude ELSE state.baro_altitude
        squawk == IF IsNull(state.squawk) \/ Val(state.squawk) = <<>>
                  THEN Null ELSE state.squawk
        position_source == normalizePositionSource(state)
        category == normalizeCategory(state)
    IN <<icao24, callsign, state.origin_country, time_position, last_contact,
         state.longitude, state.latitude, baro_altitude, state.on_ground,
         state.velocity, state.true_track, state.vertical_rate, state.sensors,
         geo_altitude, squawk, state.spi, position_source, category, t>>

\* transformToOpenSkyFormat throws 'ICAO24 is required' exactly when the
\* lower-cased, trimmed address is empty
TransformThrows(state) == trim(toLowerCase(state.icao24)) = <<>>

\* ingestData: data.states.map(transform-or-null).filter(item !== null)
RECURSIVE TransformAll(_, _, _)
TransformAll(items, feederId, t) ==
    IF items = <<>> THEN <<>>
    ELSE (IF TransformThrows(Head(items)) THEN <<>>
          ELSE <<[state |-> transformToOpenSkyFormat(Head(items), t),
                  feederId |-> feederId]>>)
         \o TransformAll(Tail(items), feederId, t)

-----------------------------------------------------------------------------
(* Quality score: DataIngestionService.calculateDataQuality *)

QualityWeights ==
    [hasPosition |-> 30, hasAltitude |-> 20, hasVelocity |-> 15,
     hasCallsign |-> 15, hasSquawk |-> 10, hasVerticalRate |-> 10]

\* state.f !== null: true of a value and of undefined (a key the object does
\* not carry), false of an explicit null only
NotNull(state, f) == f \in state.absent \/ ~IsNull(state[f])

stateScore(state) ==
      (IF NotNull(state, "latitude") /\ NotNull(state, "longitude")
       THEN QualityWeights.hasPosition ELSE 0)
    + (IF NotNull(state, "baro_altitude") \/ NotNull(state, "geo_altitude")
       THEN QualityWeights.hasAltitude ELSE 0)
    + (IF NotNull(state, "velocity") THEN QualityWeights.hasVelocity ELSE 0)
    + (IF NotNull(state, "callsign") THEN QualityWeights.hasCallsign ELSE 0)
    + (IF NotNull(state, "squawk") THEN QualityWeights.hasSquawk ELSE 0)
    + (IF NotNull(state, "vertical_rate")
       THEN QualityWeights.hasVerticalRate ELSE 0)

RECURSIVE SumStateScores(_)
SumStateScores(states) ==
    IF states = <<>> THEN 0
    ELSE stateScore(Head(states)) + SumStateScores(Tail(states))

\* Math.round(n / d) for n >= 0 and d > 0: halves round up
MathRound(n, d) == (2 * n + d) \div (2 * d)

calculateDataQuality(states) ==
    IF Len(states) = 0 THEN 0
    ELSE MathRound(SumStateScores(states), Len(states))

-----------------------------------------------------------------------------
(* Storage layer: PostgresRepository *)

\* the row written by the INSERT branch of upsertAircraftState: the 19 items
\* ($2 trimmed), data_source 'feeder', feeder id, priority and NOW()
InsertRow(state, feederId, sourcePriority, t) ==
    [state |-> [state EXCEPT ![2] = IF IsNull(@) THEN @ ELSE Some(trim(Val(@)))],
     data_source |-> "feeder",
     feeder_id |-> feederId,
     source_priority |-> sourcePriority,
     ingestion_timestamp |-> t]

\* UpdateRow with feeder_id missing from the SET list
UpdateRowKeepsFeeder(stored, excluded) ==
    [excluded EXCEPT !.state[19] = stored.state[19],
                     !.feeder_id = stored.feeder_id]

\* the row left by the DO UPDATE SET branch: every column of the SET list is
\* taken from the proposed row; created_at (item 19) is not in the SET list
\* and keeps the value of the stored row
UpdateRow(stored, excluded) ==
    [excluded EXCEPT !.state[19] = stored.state[19]]

\* UpsertWhere with a strict comparison: WHERE source_priority < $21
UpsertWhereStrict(stored, sourcePriority) == stored.source_priority < sourcePriority

\* UpsertWhere without the WHERE clause
UpsertWhereAlways(stored, sourcePriority) == TRUE

\* WHERE aircraft_states.source_priority <= $21
UpsertWhere(stored, sourcePriority) == stored.source_priority <= sourcePriority

\* one execution of the INSERT ... ON CONFLICT(icao24) DO UPDATE statement on
\* the table (a function from the addresses that have a row to their row)
upsertAircraftState(table, state, feederId, sourcePriority, t) ==
    LET icao24 == state[1]
        excluded == InsertRow(state, feederId, sourcePriority, t)
    IN IF icao24 \notin DOMAIN table
       THEN table @@ (icao24 :> excluded)
       ELSE IF UpsertWhere(table[icao24], sourcePriority)
       THEN [table EXCEPT ![icao24] = UpdateRow(@, excluded)]
       ELSE table

\* the row appended by insertAircraftStateHistory: items 1..18 (created_at is
\* left to the column default), data_source, feeder id and priority.  The
\* field by = <<call, index>> stands for the serial id of the row: it names
\* the per-record operation that issued the INSERT, so that two rows with the
\* same content are two rows.
HistoryRow(state, feederId, sourcePriority, by) ==
    [state |-> [SubSeq(state, 1, 18) EXCEPT
                    ![2] = IF IsNull(@) THEN @ ELSE Some(trim(Val(@)))],
     data_source |-> "feeder",
     feeder_id |-> feederId,
     source_priority |-> sourcePriority,
     by |-> by]

\* insertAircraftStateHistory that skips an address already in the history
insertAircraftStateHistoryOnce(table, state, feederId, sourcePriority, by) ==
    IF \E h \in table : h.state[1] = state[1]
    THEN table
    ELSE table \cup {HistoryRow(state, feederId, sourcePriority, by)}

insertAircraftStateHistory(table, state, feederId, sourcePriority, by) ==
    table \cup {HistoryRow(state, feederId, sourcePriority, by)}

\* RecordError that counts the failure without reporting it
RecordErrorUnreported(results, state, message) ==
    [results EXCEPT !.errors = @ + 1]

\* the catch block of one per-record operation of batchUpsertAircraftStates
RecordError(results, state, message) ==
    [results EXCEPT !.errors = @ + 1,
                    !.errorDetails = Append(@, [icao24 |-> state[1],
                                                error |-> message])]

RecordSuccess(results) == [results EXCEPT !.success = @ + 1]

EmptyResults == [success |-> 0, errors |-> 0, errorDetails |-> <<>>]

\* CURRENT_DATE of the statement
DateOf(t) == t \div 86400

\* incrementFeederStats writing the incoming message count over the stored one
incrementFeederStatsOverwrite(table, feederId, messageCount, uniqueAircraft, t) ==
    LET key == <<feederId, DateOf(t)>>
        row == [messages_received |-> messageCount,
                unique_aircraft |-> uniqueAircraft]
    IN IF key \notin DOMAIN table THEN table @@ (key :> row)
       ELSE [table EXCEPT ![key] =
                [row EXCEPT !.unique_aircraft =
                    IF table[key].unique_aircraft >= uniqueAircraft
                    THEN table[key].unique_aircraft ELSE uniqueAircraft]]

\* incrementFeederStats adding up the unique-aircraft values
incrementFeederStatsSumUnique(table, feederId, messageCount, uniqueAircraft, t) ==
    LET key == <<feederId, DateOf(t)>>
    IN IF key \notin DOMAIN table
       THEN table @@ (key :> [messages_received |-> messageCount,
                              unique_aircraft |-> uniqueAircraft])
       ELSE [table EXCEPT ![key] =
                [messages_received |-> @.messages_received + messageCount,
                 unique_aircraft |-> @.unique_aircraft + uniqueAircraft]]

\* INSERT INTO feeder_stats ... ON CONFLICT (feeder_id, date) DO UPDATE SET
\*   messages_received = messages_received + $2,
\*   unique_aircraft = GREATEST(unique_aircraft, $3)
incrementFeederStats(table, feederId, messageCount, uniqueAircraft, t) ==
    LET key == <<feederId, DateOf(t)>>
    IN IF key \notin DOMAIN table
       THEN table @@ (key :> [messages_received |-> messageCount,
                              unique_aircraft |-> uniqueAircraft])
       ELSE [table EXCEPT ![key] =
                [messages_received |-> @.messages_received + messageCount,
                 unique_aircraft |-> IF @.unique_aircraft >= uniqueAircraft
                                     THEN @.unique_aircraft
                                     ELSE uniqueAircraft]]

-----------------------------------------------------------------------------
(* Inputs *)

\* an observation as parsed from the JSON body; absent holds the keys the
\* object does not carry (they read as undefined, the others as null or a value)
BaseState ==
    [icao24 |-> <<>>, callsign |-> Null, origin_country |-> Null,
     time_position |-> Null, last_contact |-> Some(StartTime),
     longitude |-> Null, latitude |-> Null, baro_altitude |-> Null,
     on_ground |-> FALSE, velocity |-> Null, true_track |-> Null,
     vertical_rate |-> Null, sensors |-> Null, geo_altitude |-> Null,
     squawk |-> Null, spi |-> FALSE, position_source |-> Null,
     category |-> Null, absent |-> {}]

\* two observations of the same aircraft (the second spells the address in
\* upper case), one of another aircraft, one with a latitude out of range
SampleA1 == [BaseState EXCEPT !.icao24 = <<"a","b","c","1","2","3">>,
                              !.latitude = Some(37), !.longitude = Some(-122),
                              !.baro_altitude = Some(10000)]
SampleA2 == [BaseState EXCEPT !.icao24 = <<"A","B","C","1","2","3">>,
                              !.latitude = Some(38), !.longitude = Some(-121)]
SampleB == [BaseState EXCEPT !.icao24 = <<"d","e","f","4","5","6">>,
                             !.latitude = Some(40), !.longitude = Some(-74)]
SampleBad == [BaseState EXCEPT !.icao24 = <<"a","b","c","1","2","4">>,
                               !.latitude = Some(91)]

ValidSamples == {SampleA1, SampleA2, SampleB}
Samples == ValidSamples \cup {SampleBad}

SeqsUpTo(S, n) == UNION {[1..m -> S] : m \in 0..n}

NotAnArray == [array |-> FALSE, items |-> <<>>]

\* the request bodies of POST /data offered at time t
Payloads(t) ==
    [timestamp : {Null, Some(0), Some(t - maxDataAgeSeconds),
                  Some(t - maxDataAgeSeconds - 1)},
     states : {NotAnArray}
              \cup {[array |-> TRUE, items |-> b] : b \in SeqsUpTo(Samples, MaxBatch)}]

\* Request bodies for the runs with several calls in flight: call r submits
\* MaxBatch observations of one aircraft, the k-th at latitude 10 * r + k,
\* the address spelled in upper case at even positions; no declared timestamp.
AddrLower == <<"a","b","c","1","2","3">>
AddrUpper == <<"A","B","C","1","2","3">>

CallBatch(r, n) ==
    [k \in 1..n |->
        [BaseState EXCEPT !.icao24 = IF k % 2 = 0 THEN AddrUpper ELSE AddrLower,
                          !.latitude = Some(10 * r + k),
                          !.longitude = Some(-122)]]

CallPayloads(r) ==
    {[timestamp |-> Null,
      states |-> [array |-> TRUE, items |-> CallBatch(r, MaxBatch)]]}

\* the feeder that issues call r
FeederOf(r) == IF r % 2 = 1 THEN "f1" ELSE "f2"

-----------------------------------------------------------------------------
(* Requests *)

NoResp == [kind |-> "none", statusCode |-> 0, message |-> "", success |-> FALSE,
           processed |-> 0, errors |-> <<>>, details |-> <<>>]

\* an AppError thrown by ingestData, as errorHandler renders it
Throw(statusCode, message, details) ==
    [kind |-> "throw", statusCode |-> statusCode, message |-> message,
     success |-> FALSE, processed |-> 0, errors |-> <<>>, details |-> details]

\* a DataSubmissionResponse returned by ingestData (the route answers 200)
Return(success, processed, errors) ==
    [kind |-> "return", statusCode |-> 200, message |-> "", success |-> success,
     processed |-> processed, errors |-> errors, details |-> <<>>]

\* a call that has not arrived; batchSize is config.dataProcessing.batchSize
\* as the call reads it, validation, vector and quality hold the results of
\* the functions applied to single observations
IdleReq ==
    [pc |-> "idle", origin |-> "none", feederId |-> "none", sourcePriority |-> 0,
     data |-> [timestamp |-> Null, states |-> NotAnArray], enteredAt |-> 0,
     states |-> <<>>, i |-> 0, ops |-> <<>>, results |-> EmptyResults,
     resp |-> NoResp, stats |-> "none",
     authorization |-> Null, apiKey |-> Null, feeder |-> Null,
     lastSeen |-> "none", statsDate |-> 0, outage |-> "none",
     validation |-> Null, vector |-> Null, quality |-> Null,
     batchSize |-> batchSize]

Reqs == 1..MaxReq

Completed == {"ok", "upsertFailed", "historyFailed"}

\* the indices of the sub-batch states.slice(i, i + batchSize), 1-based
SubBatch(q) == {k \in 1..Len(q.states) : q.i <= k /\ k < q.i + q.batchSize}

\* StartSubBatch that starts the operations of all remaining records at once
StartSubBatchUnbounded(q, i) ==
    [q EXCEPT !.i = i,
              !.pc = "running",
              !.ops = [k \in 1..Len(q.states) |->
                          IF i <= k THEN "upsert" ELSE q.ops[k]]]

\* batch.map(async ...) starts every per-record operation of the sub-batch:
\* each has its upsert statement in flight
StartSubBatch(q, i) ==
    [q EXCEPT !.i = i,
              !.pc = "running",
              !.ops = [k \in 1..Len(q.states) |->
                          IF i <= k /\ k < i + q.batchSize THEN "upsert"
                          ELSE q.ops[k]]]

DataAge(data, t) ==
    t - (IF Falsy(data.timestamp) THEN t ELSE Val(data.timestamp))

\* IsStale with the boundary excluded
IsStaleInclusive(data, t) == DataAge(data, t) >= maxDataAgeSeconds

IsStale(data, t) == DataAge(data, t) > maxDataAgeSeconds

\* ingestData up to its first await: the shape checks, the batch validation,
\* the staleness check and the transformation
ingestDataEntry(q, feederId, data, t) ==
    LET base == [q EXCEPT !.origin = "ingest", !.feederId = feederId,
                          !.sourcePriority = feederSourcePriority,
                          !.data = data, !.enteredAt = t]
        done(resp) == [base EXCEPT !.pc = "done", !.resp = resp]
        validation == validateAircraftStateBatch(data.states)
        transformedStates == TransformAll(data.states.items, feederId, t)
    IN IF ~IsArray(data.states)
       THEN done(Throw(400, "Invalid data format: states must be an array", <<>>))
       ELSE IF Len(data.states.items) = 0
       THEN done(Return(TRUE, 0, <<>>))
       ELSE IF ~validation.valid
       THEN done(Throw(400, "Invalid aircraft state data", validation.errors))
       ELSE IF IsStale(data, t)
       THEN done(Throw(400, "Data is too old",
                       <<[index |-> 0, field |-> "timestamp"]>>))
       ELSE IF Len(transformedStates) = 0
       THEN done(Return(FALSE, 0,
                        <<[icao24 |-> Null,
                           error |-> "All aircraft states failed transformation"]>>))
       ELSE StartSubBatch([base EXCEPT !.states = transformedStates,
                                       !.ops = [k \in 1..Len(transformedStates)
                                                   |-> "waiting"]], 1)

\* the DataSubmissionResponse built from the BatchUpsertResult
ingestDataResponse(results) ==
    Return(results.errors = 0, results.success, results.errorDetails)

\* a rejected fire-and-forget promise is caught and dropped: the response of
\* the request stays what it is
SideEffectRejectionSurfaces(resp) ==
    Throw(500, "Internal server error", <<>>)

SideEffectRejection(resp) == resp

-----------------------------------------------------------------------------
(* The feeder-side programs when they are not running *)

NoClient == [constructed |-> FALSE]

NoPoller == [started |-> FALSE]

-----------------------------------------------------------------------------
(* Initial state and actions *)

Init ==
    /\ now = StartTime
    /\ client = NoClient
    /\ poller = NoPoller
    /\ aircraft_states = <<>>
    /\ aircraft_states_history = {}
    /\ feeder_stats = <<>>
    /\ reqs = [r \in Reqs |-> IdleReq]
    /\ failures = 0
    /\ mergeLog = <<>>

\* calls are numbered in the order in which they arrive
MayArrive(r) ==
    /\ reqs[r].pc = "idle"
    /\ \A s \in Reqs : s < r => reqs[s].pc # "idle"

\* POST /data: ingestData(feederId, data) runs up to its first await
IngestDataFrom(r, feeders, payloads) ==
    /\ MayArrive(r)
    /\ \E feederId \in feeders, data \in payloads :
          reqs' = [reqs EXCEPT ![r] = ingestDataEntry(@, feederId, data, now)]
    /\ UNCHANGED <<client, poller, now, aircraft_states, aircraft_states_history, feeder_stats,
                   failures, mergeLog>>

\* any request body, from any feeder
IngestData(r) == IngestDataFrom(r, Feeders, Payloads(now))

\* the request body of call r
IngestCall(r) == IngestDataFrom(r, {FeederOf(r)}, CallPayloads(r))

\* another ingestion channel (bulk source, live override) writes the shared
\* tables through batchUpsertAircraftStates(states, sourcePriority) with its
\* own fixed priority
OtherChannelBatch(r) ==
    /\ MayArrive(r)
    /\ \E p \in Priorities \ {feederSourcePriority}, data \in CallPayloads(r) :
          LET states == TransformAll(data.states.items, FeederOf(r), now)
          IN reqs' = [reqs EXCEPT ![r] =
                 StartSubBatch([@ EXCEPT !.origin = "other",
                                         !.feederId = FeederOf(r),
                                         !.sourcePriority = p,
                                         !.data = data,
                                         !.enteredAt = now,
                                         !.states = states,
                                         !.ops = [k \in 1..Len(states) |-> "waiting"]],
                               1)]
    /\ UNCHANGED <<client, poller, now, aircraft_states, aircraft_states_history, feeder_stats,
                   failures, mergeLog>>

\* the upsert statement of record k of call r executes, atomically, in the
\* database; the operation then issues its history INSERT
UpsertOk(r, k) ==
    LET q == reqs[r]
        item == q.states[k]
    IN /\ q.pc = "running"
       /\ k \in DOMAIN q.ops
       /\ q.ops[k] = "upsert"
       /\ aircraft_states' = upsertAircraftState(aircraft_states, item.state,
                                                 item.feederId, q.sourcePriority, now)
       /\ mergeLog' = Append(mergeLog,
                             [by |-> <<r, k>>,
                              row |-> InsertRow(item.state, item.feederId,
                                                q.sourcePriority, now)])
       /\ reqs' = [reqs EXCEPT ![r].ops[k] = "history"]
       /\ UNCHANGED <<client, poller, now, aircraft_states_history, feeder_stats, failures>>

\* the upsert statement fails (connection loss, timeout, constraint): the
\* error is rethrown into the catch block of the operation
UpsertFail(r, k) ==
    LET q == reqs[r]
    IN /\ q.pc = "running"
       /\ k \in DOMAIN q.ops
       /\ q.ops[k] = "upsert"
       /\ failures < MaxFailures
       /\ failures' = failures + 1
       /\ reqs' = [reqs EXCEPT ![r].ops[k] = "upsertFailed",
                               ![r].results = RecordError(@, q.states[k].state,
                                                          "upsert failed")]
       /\ UNCHANGED <<client, poller, now, aircraft_states, aircraft_states_history, feeder_stats,
                      mergeLog>>

\* the history INSERT of record k of call r executes
HistoryOk(r, k) ==
    LET q == reqs[r]
        item == q.states[k]
    IN /\ q.pc = "running"
       /\ k \in DOMAIN q.ops
       /\ q.ops[k] = "history"
       /\ aircraft_states_history' =
              insertAircraftStateHistory(aircraft_states_history, item.state,
                                         item.feederId, q.sourcePriority, <<r, k>>)
       /\ reqs' = [reqs EXCEPT ![r].ops[k] = "ok",
                               ![r].results = RecordSuccess(@)]
       /\ UNCHANGED <<client, poller, now, aircraft_states, feeder_stats, failures, mergeLog>>

\* the history INSERT fails
HistoryFail(r, k) ==
    LET q == reqs[r]
    IN /\ q.pc = "running"
       /\ k \in DOMAIN q.ops
       /\ q.ops[k] = "history"
       /\ failures < MaxFailures
       /\ failures' = failures + 1
       /\ reqs' = [reqs EXCEPT ![r].ops[k] = "historyFailed",
                               ![r].results = RecordError(@, q.states[k].state,
                                                          "history insert failed")]
       /\ UNCHANGED <<client, poller, now, aircraft_states, aircraft_states_history, feeder_stats,
                      mergeLog>>

\* Promise.all of the sub-batch resolves and another sub-batch remains: the
\* loop awaits setImmediate
SubBatchYield(r) ==
    LET q == reqs[r]
    IN /\ q.pc = "running"
       /\ \A k \in SubBatch(q) : q.ops[k] \in Completed
       /\ q.i + q.batchSize <= Len(q.states)
       /\ reqs' = [reqs EXCEPT ![r].pc = "yield"]
       /\ UNCHANGED <<client, poller, now, aircraft_states, aircraft_states_history, feeder_stats,
                      failures, mergeLog>>

\* the setImmediate callback runs: the next sub-batch starts
NextSubBatch(r) ==
    LET q == reqs[r]
    IN /\ q.pc = "yield"
       /\ reqs' = [reqs EXCEPT ![r] = StartSubBatch(q, q.i + q.batchSize)]
       /\ UNCHANGED <<client, poller, now, aircraft_states, aircraft_states_history, feeder_stats,
                      failures, mergeLog>>

\* Promise.all of the last sub-batch resolves: batchUpsertAircraftStates
\* returns; ingestData starts updateFeederStats without awaiting it and
\* returns its response
BatchDone(r) ==
    LET q == reqs[r]
    IN /\ q.pc = "running"
       /\ \A k \in SubBatch(q) : q.ops[k] \in Completed
       /\ ~(q.i + q.batchSize <= Len(q.states))
       /\ reqs' = [reqs EXCEPT ![r].pc = "done",
                               ![r].resp = IF q.origin = "ingest"
                                           THEN ingestDataResponse(q.results)
                                           ELSE @,
                               ![r].stats = IF q.origin = "ingest"
                                            THEN "pending" ELSE @]
       /\ UNCHANGED <<client, poller, now, aircraft_states, aircraft_states_history, feeder_stats,
                      failures, mergeLog>>

\* the statement of incrementFeederStats executes (fire and forget)
StatsOk(r) ==
    LET q == reqs[r]
    IN /\ q.stats = "pending"
       /\ feeder_stats' = incrementFeederStats(feeder_stats, q.feederId,
                                               q.results.success,
                                               q.results.success, now)
       /\ reqs' = [reqs EXCEPT ![r].stats = "done",
                               ![r].statsDate = DateOf(now)]
       /\ UNCHANGED <<client, poller, now, aircraft_states, aircraft_states_history, failures,
                      mergeLog>>

\* the statement of incrementFeederStats fails: logged, not rethrown
StatsFail(r) ==
    /\ reqs[r].stats = "pending"
    /\ failures < MaxFailures
    /\ failures' = failures + 1
    /\ reqs' = [reqs EXCEPT ![r].stats = "failed",
                            ![r].resp = SideEffectRejection(@)]
    /\ UNCHANGED <<client, poller, now, aircraft_states, aircraft_states_history, feeder_stats,
                   mergeLog>>

\* a second passes
Tick ==
    /\ now < StartTime + MaxTicks
    /\ now' = now + 1
    /\ UNCHANGED <<client, poller, aircraft_states, aircraft_states_history, feeder_stats, reqs,
                   failures, mergeLog>>

\* the steps of the per-record operations and of the batch loop of call r
PipelineCore(r) ==
    \/ \E k \in DOMAIN reqs[r].ops : UpsertOk(r, k)
    \/ \E k \in DOMAIN reqs[r].ops : UpsertFail(r, k)
    \/ \E k \in DOMAIN reqs[r].ops : HistoryOk(r, k)
    \/ \E k \in DOMAIN reqs[r].ops : HistoryFail(r, k)
    \/ SubBatchYield(r)
    \/ NextSubBatch(r)
    \/ BatchDone(r)

\* the same, and the fire-and-forget statistics statement of the call
Pipeline(r) ==
    \/ PipelineCore(r)
    \/ StatsOk(r)
    \/ StatsFail(r)

\* several calls in flight, from the feeder channel and from other channels;
\* the statistics statements of these calls stay pending
Next ==
    \/ \E r \in Reqs : IngestCall(r)
    \/ \E r \in Reqs : OtherChannelBatch(r)
    \/ \E r \in Reqs : PipelineCore(r)

Spec == Init /\ [][Next]_vars

\* one call of ingestData with any request body, while the clock runs
NextSingle ==
    \/ IngestData(1)
    \/ Pipeline(1)
    \/ Tick

SpecSingle == Init /\ [][NextSingle]_vars

\* The same call with the progress the code guarantees: the steps of the
\* batch loop (the continuation after Promise.all, the setImmediate callback)
\* are run by the event loop.  The storage statements are issued without a
\* timeout (db.none on a pool created from the connection URL alone), so
\* nothing makes a statement in flight complete or fail.
SpecSingleFair ==
    /\ SpecSingle
    /\ WF_vars(SubBatchYield(1))
    /\ WF_vars(NextSubBatch(1))
    /\ WF_vars(BatchDone(1))

-----------------------------------------------------------------------------
(* POST /data behind the authenticate middleware, forwarding deployment:     *)
(* the credential is resolved by the main service and the transformed batch  *)
(* is forwarded to it.                                                       *)

Rep(c, n) == [i \in 1..n |-> c]

ApiKeyPrefix == <<"s","k","_","l","i","v","e","_">>
ApiKeyHexLen == 64

\* Authorization headers as the parts of authHeader.split(' '); Null is a
\* request without the header
KeyActive == ApiKeyPrefix \o Rep("a", ApiKeyHexLen)
KeyActive2 == ApiKeyPrefix \o Rep("b", ApiKeyHexLen)
KeySuspended == ApiKeyPrefix \o Rep("c", ApiKeyHexLen)
KeyInactive == ApiKeyPrefix \o Rep("d", ApiKeyHexLen)
KeyUnknown == ApiKeyPrefix \o Rep("E", ApiKeyHexLen)
KeyShort == ApiKeyPrefix \o Rep("a", ApiKeyHexLen - 1)
KeyNotHex == ApiKeyPrefix \o Rep("g", ApiKeyHexLen)

Headers ==
    {Null, <<"Bearer">>, <<"Basic", KeyActive>>, <<"Bearer", <<>>>>,
     <<"Bearer", KeyShort>>, <<"Bearer", KeyNotHex>>, <<"Bearer", KeyUnknown>>,
     <<"Bearer", KeyActive>>, <<"Bearer", KeyActive2>>,
     <<"Bearer", KeySuspended>>, <<"Bearer", KeyInactive>>}

\* AuthService.extractBearerToken
extractBearerToken(authHeader) ==
    IF authHeader = Null THEN Null
    ELSE IF Len(authHeader) # 2 \/ authHeader[1] # "Bearer" THEN Null
    ELSE Some(authHeader[2])

\* AuthService.validateApiKeyFormat: /^sk_live_[0-9a-fA-F]{64}$/
validateApiKeyFormat(apiKey) ==
    /\ Len(apiKey) = Len(ApiKeyPrefix) + ApiKeyHexLen
    /\ SubSeq(apiKey, 1, Len(ApiKeyPrefix)) = ApiKeyPrefix
    /\ \A i \in Len(ApiKeyPrefix) + 1..Len(apiKey) : apiKey[i] \in HexDigits

\* the feeders the main service knows, by API key; a reply may leave the
\* status out
FeederRegistry ==
    (KeyActive :> [feeder_id |-> "f1", status |-> Some("active")])
    @@ (KeyActive2 :> [feeder_id |-> "f1", status |-> Null])
    @@ (KeySuspended :> [feeder_id |-> "f2", status |-> Some("suspended")])
    @@ (KeyInactive :> [feeder_id |-> "f2", status |-> Some("inactive")])

\* replies of the main service to GET authEndpoint
AuthReply(apiKey) ==
    IF apiKey \in DOMAIN FeederRegistry
    THEN {[status |-> 200, data |-> Some(FeederRegistry[apiKey])],
          [status |-> 200, data |-> Null]}
    ELSE {[status |-> 401, data |-> Null], [status |-> 403, data |-> Null]}

\* the main service cannot be reached, times out or fails: status 0 stands
\* for an error without a response
Unavailable == {[status |-> 0, data |-> Null], [status |-> 503, data |-> Null]}

\* findFeederByApiKey taking every resolved feeder for active
findFeederByApiKeyAnyStatus(reply) ==
    IF reply.status = 200 /\ reply.data # Null
    THEN Some([feeder_id |-> Val(reply.data).feeder_id, status |-> "active"])
    ELSE Null

\* findFeederByApiKey: the feeder of a 2xx reply that carries a feeder_id,
\* null for every other reply and for every error
findFeederByApiKey(reply) ==
    IF reply.status = 200 /\ reply.data # Null
    THEN Some([feeder_id |-> Val(reply.data).feeder_id,
               status |-> IF Val(reply.data).status = Null THEN "active"
                          ELSE Val(Val(reply.data).status)])
    ELSE Null

\* a response written by a middleware: res.status(statusCode).json({success:
\* false, error, details})
Reject(statusCode, error, details) ==
    [kind |-> "reject", statusCode |-> statusCode, message |-> error,
     success |-> FALSE, processed |-> 0, errors |-> <<>>, details |-> details]

\* authenticate up to its first await
authenticateEntry(q, authHeader, body, t) ==
    LET apiKey == extractBearerToken(authHeader)
        base == [q EXCEPT !.origin = "route", !.authorization = authHeader,
                          !.apiKey = apiKey, !.data = body, !.enteredAt = t]
        done(resp) == [base EXCEPT !.pc = "done", !.resp = resp]
    IN IF apiKey = Null \/ Val(apiKey) = <<>>
       THEN done(Reject(401, "Missing or invalid Authorization header", <<>>))
       ELSE IF ~validateApiKeyFormat(Val(apiKey))
       THEN done(Reject(401, "Invalid API key format", <<>>))
       ELSE [base EXCEPT !.pc = "auth"]

\* body('timestamp'), body('states') and body('states.*.icao24') of the
\* route, collected by handleValidationErrors: one entry per failed validator
icao24Errors(items, k) ==
    LET v == items[k].icao24
        e(message) == <<[field |-> "states.icao24", index |-> k - 1,
                         message |-> message]>>
    IN (IF v = <<>> THEN e("ICAO24 is required") ELSE <<>>)
       \o (IF Len(v) # 6 THEN e("ICAO24 must be 6 characters") ELSE <<>>)
       \o (IF ~RuleIcao24(v) THEN e("ICAO24 must be hexadecimal") ELSE <<>>)

RECURSIVE CollectIcao24Errors(_, _)
CollectIcao24Errors(items, k) ==
    IF k > Len(items) THEN <<>>
    ELSE icao24Errors(items, k) \o CollectIcao24Errors(items, k + 1)

RouteValidationErrors(body) ==
    (IF body.timestamp # Null /\ Val(body.timestamp) < 0
     THEN <<[field |-> "timestamp", index |-> 0,
             message |-> "Timestamp must be a positive integer (Unix timestamp)"]>>
     ELSE <<>>)
    \o (IF ~IsArray(body.states) \/ Len(body.states.items) < 1
        THEN <<[field |-> "states", index |-> 0,
                message |-> "States must be a non-empty array"]>>
        ELSE <<>>)
    \o CollectIcao24Errors(body.states.items, 1)

\* ingestData of the forwarding deployment up to its first await: the same
\* checks and transformation, then the POST to the main service is in flight
forwardDataEntry(q, feederId, data, t) ==
    LET base == [q EXCEPT !.feederId = feederId]
        done(resp) == [base EXCEPT !.pc = "done", !.resp = resp]
        validation == validateAircraftStateBatch(data.states)
        transformedStates == TransformAll(data.states.items, feederId, t)
    IN IF ~IsArray(data.states)
       THEN done(Throw(400, "Invalid data format: states must be an array", <<>>))
       ELSE IF Len(data.states.items) = 0
       THEN done(Return(TRUE, 0, <<>>))
       ELSE IF ~validation.valid
       THEN done(Throw(400, "Invalid aircraft state data", validation.errors))
       ELSE IF IsStale(data, t)
       THEN done(Throw(400, "Data is too old",
                       <<[index |-> 0, field |-> "timestamp"]>>))
       ELSE IF Len(transformedStates) = 0
       THEN done(Return(FALSE, 0,
                        <<[icao24 |-> Null,
                           error |-> "All aircraft states failed transformation"]>>))
       ELSE [base EXCEPT !.pc = "forward", !.states = transformedStates]

\* the handler of the route: ingestData, then updateLastSeen without await
\* and the 200 response when ingestData has returned
dataHandler(q, feederId, t) ==
    LET after == forwardDataEntry(q, feederId, q.data, t)
    IN IF after.pc = "done" /\ after.resp.kind = "return"
       THEN [after EXCEPT !.lastSeen = "pending"]
       ELSE after

\* the /data route mounts no rate limiter between authenticate and the
\* validators: no number of earlier submissions rejects a request
dataIngestionLimiter(hits) == hits > maxRequests

dataRouteLimiter(hits) == FALSE

\* the submissions of the feeder that have reached the route so far
Hits(feederId) ==
    Cardinality({s \in Reqs : /\ reqs[s].feeder # Null
                              /\ Val(reqs[s].feeder).feeder_id = feederId})

\* authenticate after findFeederByApiKey, then the validators and the
\* handler up to the first await of ingestData
authenticateResume(q, feeder, t) ==
    LET done(resp) == [q EXCEPT !.pc = "done", !.resp = resp]
        errorDetails == RouteValidationErrors(q.data)
    IN IF feeder = Null
       THEN done(Reject(401, "Invalid API key", <<>>))
       ELSE IF Val(feeder).status = "suspended"
       THEN done(Reject(403, "Feeder account suspended", <<>>))
       ELSE IF Val(feeder).status = "inactive"
       THEN done(Reject(403, "Feeder account inactive", <<>>))
       ELSE IF dataRouteLimiter(Hits(Val(feeder).feeder_id) + 1)
       THEN [done(Reject(429, "Too many requests", <<>>)) EXCEPT !.feeder = feeder]
       ELSE IF errorDetails # <<>>
       THEN [done(Reject(400, "Validation failed", errorDetails))
                EXCEPT !.feeder = feeder]
       ELSE dataHandler([q EXCEPT !.feeder = feeder], Val(feeder).feeder_id, t)

\* request bodies offered to the route at time t
SampleNoAddr == [BaseState EXCEPT !.latitude = Some(37)]

RouteBodies(t) ==
    [timestamp : {Null, Some(t - maxDataAgeSeconds - 1)},
     states : {NotAnArray}
              \cup {[array |-> TRUE, items |-> b] :
                       b \in {<<>>, <<SampleA1>>, <<SampleBad>>, <<SampleNoAddr>>,
                              <<SampleA1, SampleB>>}}]

\* the requests offered to the route: every header with one body, and every
\* body with the header of an active feeder
RouteRequests(t) ==
    {[authorization |-> h,
      body |-> [timestamp |-> Null,
                states |-> [array |-> TRUE, items |-> <<SampleA1>>]]] :
        h \in Headers}
    \cup {[authorization |-> <<"Bearer", KeyActive>>, body |-> b] :
             b \in RouteBodies(t)}

\* 2xx replies of the main service to the forwarded batch of n states: no
\* JSON object, or an object with its processed count and its errors
MainServiceError == [icao24 |-> Null, error |-> "rejected by main service"]

ForwardReply(n) ==
    {[status |-> 200, data |-> Null]}
    \cup {[status |-> 200,
           data |-> Some([processed |-> c, errors |-> e, error |-> Null])] :
             c \in {0, n}, e \in {Null, Some(<<MainServiceError>>)}}

\* 400 replies: the main service rejected the batch
ForwardRejection ==
    {[status |-> 400, data |-> d] :
        d \in {Null,
               Some([processed |-> 0, errors |-> Some(<<MainServiceError>>),
                     error |-> Null]),
               Some([processed |-> 0, errors |-> Null,
                     error |-> Some("Invalid payload")])}}

\* the response built from a 2xx reply
forwardDataResponse(reply, n) ==
    LET data == reply.data
        processed == IF data = Null \/ Val(data).processed = 0 THEN n
                     ELSE Val(data).processed
        errors == IF data # Null /\ Val(data).errors # Null
                  THEN Val(Val(data).errors) ELSE <<>>
    IN Return(errors = <<>>, processed, errors)

\* the AppError thrown for an error reply or for no reply at all
forwardDataError(reply) ==
    LET data == reply.data
        errors == IF reply.status = 0 \/ data = Null THEN <<>>
                  ELSE IF Val(data).errors # Null THEN Val(Val(data).errors)
                  ELSE IF Val(data).error # Null
                  THEN <<[icao24 |-> Null, error |-> Val(Val(data).error)]>>
                  ELSE <<>>
    IN IF reply.status = 400
       THEN Throw(400, "Main service rejected data",
                  IF errors # <<>> THEN errors
                  ELSE <<[icao24 |-> Null, error |-> "Main service validation failed"]>>)
       ELSE Throw(503, "Main service unavailable",
                  IF errors # <<>> THEN errors
                  ELSE <<[icao24 |-> Null,
                          error |-> "Failed to forward data to main service"]>>)


\* POST /data arrives: authenticate runs up to findFeederByApiKey
PostData(r) ==
    /\ MayArrive(r)
    /\ \E req \in RouteRequests(now) :
          reqs' = [reqs EXCEPT ![r] = authenticateEntry(@, req.authorization,
                                                        req.body, now)]
    /\ UNCHANGED <<client, poller, now, aircraft_states, aircraft_states_history, feeder_stats,
                   failures, mergeLog>>

\* the main service answers the credential lookup
AuthAnswer(r) ==
    LET q == reqs[r]
    IN /\ q.pc = "auth"
       /\ \E reply \in AuthReply(Val(q.apiKey)) :
             reqs' = [reqs EXCEPT ![r] =
                         authenticateResume(q, findFeederByApiKey(reply), now)]
       /\ UNCHANGED <<client, poller, now, aircraft_states, aircraft_states_history,
                      feeder_stats, failures, mergeLog>>

\* the main service is unavailable for the credential lookup
AuthUnavailable(r) ==
    LET q == reqs[r]
    IN /\ q.pc = "auth"
       /\ failures < MaxFailures
       /\ failures' = failures + 1
       /\ \E reply \in Unavailable :
             reqs' = [reqs EXCEPT ![r] =
                         authenticateResume([q EXCEPT !.outage = "auth"],
                                            findFeederByApiKey(reply), now)]
       /\ UNCHANGED <<client, poller, now, aircraft_states, aircraft_states_history,
                      feeder_stats, mergeLog>>

\* the main service accepts the forwarded batch: updateFeederStats is started
\* without await, ingestData returns, the route starts updateLastSeen and
\* answers 200
ForwardOk(r) ==
    LET q == reqs[r]
    IN /\ q.pc = "forward"
       /\ \E reply \in ForwardReply(Len(q.states)) :
             reqs' = [reqs EXCEPT ![r].pc = "done",
                                  ![r].resp = forwardDataResponse(reply, Len(q.states)),
                                  ![r].results.success =
                                      forwardDataResponse(reply, Len(q.states)).processed,
                                  ![r].stats = "pending",
                                  ![r].lastSeen = "pending"]
       /\ UNCHANGED <<client, poller, now, aircraft_states, aircraft_states_history,
                      feeder_stats, failures, mergeLog>>

\* the main service rejects the forwarded batch with status 400
ForwardRejected(r) ==
    LET q == reqs[r]
    IN /\ q.pc = "forward"
       /\ \E reply \in ForwardRejection :
             reqs' = [reqs EXCEPT ![r].pc = "done",
                                  ![r].resp = forwardDataError(reply)]
       /\ UNCHANGED <<client, poller, now, aircraft_states, aircraft_states_history,
                      feeder_stats, failures, mergeLog>>

\* the main service is unavailable for the forwarded batch
ForwardUnavailable(r) ==
    LET q == reqs[r]
    IN /\ q.pc = "forward"
       /\ failures < MaxFailures
       /\ failures' = failures + 1
       /\ \E reply \in Unavailable :
             reqs' = [reqs EXCEPT ![r].pc = "done",
                                  ![r].outage = "forward",
                                  ![r].resp = forwardDataError(reply)]
       /\ UNCHANGED <<client, poller, now, aircraft_states, aircraft_states_history,
                      feeder_stats, mergeLog>>

\* the POST of updateFeederStats to the main service completes
ForwardStatsOk(r) ==
    /\ reqs[r].origin = "route"
    /\ reqs[r].stats = "pending"
    /\ reqs' = [reqs EXCEPT ![r].stats = "done"]
    /\ UNCHANGED <<client, poller, now, aircraft_states, aircraft_states_history, feeder_stats,
                   failures, mergeLog>>

\* the POST of updateFeederStats fails: caught inside updateFeederStats
ForwardStatsFail(r) ==
    /\ reqs[r].origin = "route"
    /\ reqs[r].stats = "pending"
    /\ reqs' = [reqs EXCEPT ![r].stats = "failed",
                            ![r].resp = SideEffectRejection(@)]
    /\ UNCHANGED <<client, poller, now, aircraft_states, aircraft_states_history, feeder_stats,
                   failures, mergeLog>>

\* the UPDATE of updateFeederLastSeen executes
LastSeenOk(r) ==
    /\ reqs[r].lastSeen = "pending"
    /\ reqs' = [reqs EXCEPT ![r].lastSeen = "done"]
    /\ UNCHANGED <<client, poller, now, aircraft_states, aircraft_states_history, feeder_stats,
                   failures, mergeLog>>

\* the UPDATE fails: caught inside updateFeederLastSeen
LastSeenFail(r) ==
    /\ reqs[r].lastSeen = "pending"
    /\ reqs' = [reqs EXCEPT ![r].lastSeen = "failed",
                            ![r].resp = SideEffectRejection(@)]
    /\ UNCHANGED <<client, poller, now, aircraft_states, aircraft_states_history, feeder_stats,
                   failures, mergeLog>>

\* requests to POST /data, several in flight
NextRoute ==
    \/ \E r \in Reqs : PostData(r)
    \/ \E r \in Reqs : AuthAnswer(r)
    \/ \E r \in Reqs : AuthUnavailable(r)
    \/ \E r \in Reqs : ForwardOk(r)
    \/ \E r \in Reqs : ForwardRejected(r)
    \/ \E r \in Reqs : ForwardUnavailable(r)
    \/ \E r \in Reqs : ForwardStatsOk(r)
    \/ \E r \in Reqs : ForwardStatsFail(r)
    \/ \E r \in Reqs : LastSeenOk(r)
    \/ \E r \in Reqs : LastSeenFail(r)

SpecRoute == Init /\ [][NextRoute]_vars

-----------------------------------------------------------------------------
(* Concurrent statistics updates *)

\* updateFeederStats(feederId, messageCount, totalSubmitted) is called at the
\* end of a batch: the statement of incrementFeederStats is in flight
UpdateFeederStats(r) ==
    /\ MayArrive(r)
    /\ \E feederId \in Feeders, messageCount \in 0..MaxBatch :
          reqs' = [reqs EXCEPT ![r] =
                      [@ EXCEPT !.origin = "stats", !.pc = "done",
                                !.feederId = feederId, !.enteredAt = now,
                                !.results.success = messageCount,
                                !.stats = "pending"]]
    /\ UNCHANGED <<client, poller, now, aircraft_states, aircraft_states_history, feeder_stats,
                   failures, mergeLog>>

\* statistics updates of several batches in flight, while the clock runs
NextStats ==
    \/ \E r \in Reqs : UpdateFeederStats(r)
    \/ \E r \in Reqs : StatsOk(r)
    \/ \E r \in Reqs : StatsFail(r)
    \/ Tick

SpecStats == Init /\ [][NextStats]_vars

-----------------------------------------------------------------------------
(* The same batch submitted several times *)

DigitChars == <<"1", "2", "3", "4", "5", "6", "7", "8", "9">>

\* a valid batch of n observations of n different aircraft
ResubmittedBatch(n) ==
    [k \in 1..n |->
        [BaseState EXCEPT !.icao24 = <<"a", "b", "c", "1", "2", DigitChars[k]>>,
                          !.latitude = Some(40 + k),
                          !.longitude = Some(-74)]]

ResubmittedPayload ==
    [timestamp |-> Null,
     states |-> [array |-> TRUE, items |-> ResubmittedBatch(MaxBatch)]]

\* feeder f1 submits the batch (again)
IngestAgain(r) == IngestDataFrom(r, {"f1"}, {ResubmittedPayload})

\* the submissions may overlap, and the clock runs
NextTwice ==
    \/ \E r \in Reqs : IngestAgain(r)
    \/ \E r \in Reqs : PipelineCore(r)
    \/ Tick

SpecTwice == Init /\ [][NextTwice]_vars

-----------------------------------------------------------------------------
(* Properties of the state merge (specification Spec) *)

\* the columns of a row of aircraft_states that make up the canonical record:
\* the observation (items 1..18), the data source, the originating feeder,
\* the source priority and the ingestion timestamp
CanonicalFields(row) ==
    [state |-> SubSeq(row.state, 1, 18),
     data_source |-> row.data_source,
     feeder_id |-> row.feeder_id,
     source_priority |-> row.source_priority,
     ingestion_timestamp |-> row.ingestion_timestamp]

MergedAddresses == {mergeLog[i].row.state[1] : i \in 1..Len(mergeLog)}

\* the positions in mergeLog of the merges of address a
MergeIdx(a) == {i \in 1..Len(mergeLog) : mergeLog[i].row.state[1] = a}

PriorityAt(i) == mergeLog[i].row.source_priority

MaxMergedPriority(a) ==
    CHOOSE p \in {PriorityAt(i) : i \in MergeIdx(a)} :
        \A i \in MergeIdx(a) : PriorityAt(i) <= p

LastAtMax(a) ==
    LET atMax == {i \in MergeIdx(a) : PriorityAt(i) = MaxMergedPriority(a)}
    IN mergeLog[CHOOSE i \in atMax : \A j \in atMax : j <= i].row

\* C1: for any address, after any sequence of merges the stored source
\* priority is the maximum of the priorities merged, and the stored record is
\* the last record merged at that maximum priority.
C1_PriorityMonotonicity ==
    \A a \in MergedAddresses :
        /\ a \in DOMAIN aircraft_states
        /\ aircraft_states[a].source_priority = MaxMergedPriority(a)
        /\ CanonicalFields(aircraft_states[a]) = CanonicalFields(LastAtMax(a))

\* three merges of one address: two at the maximum priority with a merge of
\* lower priority between them
C1_Witness ==
    \E a \in MergedAddresses :
        \E i, j, k \in MergeIdx(a) :
            /\ i < j /\ j < k
            /\ PriorityAt(i) = MaxMergedPriority(a)
            /\ PriorityAt(k) = MaxMergedPriority(a)
            /\ PriorityAt(j) < MaxMergedPriority(a)
            /\ CanonicalFields(mergeLog[i].row) # CanonicalFields(mergeLog[k].row)

\* the step executes one upsert statement
MergeStep == Len(mergeLog') = Len(mergeLog) + 1

\* C2: when a record exists for the address, a merge overwrites it (every
\* field of the canonical record, source priority and feeder id included) if
\* the incoming priority is >= the stored priority, and leaves the record
\* unchanged when the incoming priority is lower; a stored record changes in
\* no other step.
C2_OverwriteIffPriorityGE ==
    [][ /\ MergeStep =>
            LET incoming == mergeLog'[Len(mergeLog')].row
                a == incoming.state[1]
            IN a \in DOMAIN aircraft_states =>
                 /\ incoming.source_priority >= aircraft_states[a].source_priority
                      => CanonicalFields(aircraft_states'[a]) = CanonicalFields(incoming)
                 /\ incoming.source_priority < aircraft_states[a].source_priority
                      => aircraft_states'[a] = aircraft_states[a]
        /\ \A a \in DOMAIN aircraft_states :
              aircraft_states'[a] # aircraft_states[a] =>
                  MergeStep /\ mergeLog'[Len(mergeLog')].row.state[1] = a
      ]_vars

\* a record of one feeder was overwritten by a merge of higher priority from
\* another feeder, and the merge executed last had a lower priority and left
\* that record in place
C2_Witness ==
    \E a \in MergedAddresses :
        \E i, j \in MergeIdx(a) :
            LET k == Len(mergeLog)
            IN /\ i < j /\ j < k /\ k \in MergeIdx(a)
               /\ PriorityAt(j) > PriorityAt(i)
               /\ mergeLog[j].row.feeder_id # mergeLog[i].row.feeder_id
               /\ PriorityAt(k) < PriorityAt(j)
               /\ CanonicalFields(aircraft_states[a]) = CanonicalFields(mergeLog[j].row)

HistoryOf(r, k) == {h \in aircraft_states_history : h.by = <<r, k>>}

C4_NeverReplacedByLowerPriority ==
    [][ \A a \in DOMAIN aircraft_states :
            aircraft_states'[a] # aircraft_states[a] =>
                aircraft_states'[a].source_priority
                    >= aircraft_states[a].source_priority ]_vars

\* two calls of different priority are in flight, their statements on one
\* address have interleaved, and the statement of the lower priority ran
\* after one of the higher priority
C4_Witness ==
    \E r, s \in Reqs :
        /\ r # s
        /\ reqs[r].pc = "running" /\ reqs[s].pc = "running"
        /\ reqs[r].sourcePriority < reqs[s].sourcePriority
        /\ \E i, j, k \in 1..Len(mergeLog) :
              /\ i < j /\ j < k
              /\ mergeLog[i].by[1] = r
              /\ mergeLog[j].by[1] = s
              /\ mergeLog[k].by[1] = r
              /\ mergeLog[i].row.state[1] = mergeLog[j].row.state[1]
              /\ mergeLog[k].row.state[1] = mergeLog[j].row.state[1]
              /\ aircraft_states[mergeLog[j].row.state[1]].source_priority
                     = reqs[s].sourcePriority

-----------------------------------------------------------------------------
(* Properties of one ingestData call (specification SpecSingle) *)

Items(q) == q.data.states.items

\* the observations of the submitted batch that fail field validation
InvalidIdx(q) ==
    {k \in 1..Len(Items(q)) : ~validateAircraftState(Items(q)[k], k - 1).valid}

HistoryOfCall(r) == {h \in aircraft_states_history : h.by[1] = r}

FailedOps(q) == {k \in DOMAIN q.ops : q.ops[k] \in {"upsertFailed", "historyFailed"}}

OkOps(q) == {k \in DOMAIN q.ops : q.ops[k] = "ok"}

\* the number of errors the caller is given: the entries of errors of a
\* returned response; the details of a thrown error, or the error itself
\* when it has no details
ErrorCount(resp) ==
    IF resp.kind = "throw"
    THEN (IF resp.details = <<>> THEN 1 ELSE Len(resp.details))
    ELSE Len(resp.errors)

\* C5: a batch of N observations of which k fail field validation returns
\* processed = N - k and k errors, and the N - k valid observations are in
\* the history (storage working, batch not stale).
C5_PartialFailureBatching ==
    \A r \in Reqs :
        LET q == reqs[r]
        IN (/\ q.origin = "ingest" /\ q.pc = "done"
            /\ IsArray(q.data.states) /\ Len(Items(q)) > 0
            /\ ~IsStale(q.data, q.enteredAt)
            /\ failures = 0)
           => /\ q.resp.processed = Len(Items(q)) - Cardinality(InvalidIdx(q))
              /\ InvalidIdx(q) # {} => ErrorCount(q.resp) = Cardinality(InvalidIdx(q))
              /\ InvalidIdx(q) = {} => q.resp.errors = <<>>
              /\ Cardinality(HistoryOfCall(r))
                     = Len(Items(q)) - Cardinality(InvalidIdx(q))

\* C6: for one observation the history append and the merge are independent:
\* when the merge is the statement that failed, the history entry is still
\* appended; when the append failed, the merge was executed; the failure is
\* reported with the address.
C6_AppendAndMergeIndependent ==
    \A r \in Reqs :
        LET q == reqs[r]
        IN q.pc = "done" =>
             \A k \in DOMAIN q.ops :
                /\ (q.ops[k] = "upsertFailed" /\ failures = 1)
                       => HistoryOf(r, k) # {}
                /\ q.ops[k] = "historyFailed"
                       => \E i \in 1..Len(mergeLog) : mergeLog[i].by = <<r, k>>
                /\ k \in FailedOps(q)
                       => \E e \in 1..Len(q.results.errorDetails) :
                             q.results.errorDetails[e].icao24 = q.states[k].state[1]

\* C7: a failure of one record never aborts the rest of the batch: when the
\* call has finished every record was attempted, the failures are counted,
\* and each is reported together with the offending address.
C7_FailureDoesNotAbortBatch ==
    \A r \in Reqs :
        LET q == reqs[r]
        IN (q.pc = "done" /\ q.states # <<>>) =>
             /\ \A k \in DOMAIN q.ops : q.ops[k] \in Completed
             /\ \A k \in OkOps(q) : HistoryOf(r, k) # {}
             /\ q.results.success = Cardinality(OkOps(q))
             /\ q.results.errors = Cardinality(FailedOps(q))
             /\ Len(q.results.errorDetails) = q.results.errors
             /\ \A k \in FailedOps(q) :
                   \E e \in 1..Len(q.results.errorDetails) :
                       q.results.errorDetails[e].icao24 = q.states[k].state[1]
             /\ q.origin = "ingest" =>
                   /\ q.resp.kind = "return"
                   /\ q.resp.processed = q.results.success
                   /\ q.resp.errors = q.results.errorDetails

\* the merge of the first record failed, the record after it was processed
\* and is in the history, and the response names the address that failed
C7_Witness ==
    \E r \in Reqs :
        LET q == reqs[r]
        IN /\ q.pc = "done" /\ q.origin = "ingest"
           /\ Len(q.states) >= 2
           /\ q.ops[1] = "upsertFailed"
           /\ q.ops[2] = "ok"
           /\ HistoryOf(r, 2) # {}
           /\ q.states[1].state[1] # q.states[2].state[1]
           /\ Len(q.resp.errors) = 1
           /\ q.resp.errors[1].icao24 = q.states[1].state[1]

\* C8: the response reports success = true whenever at least one record of
\* the batch was accepted.
C8_SuccessIfAnyAccepted ==
    \A r \in Reqs :
        LET q == reqs[r]
        IN (/\ q.origin = "ingest" /\ q.pc = "done"
            /\ q.resp.kind = "return" /\ q.resp.processed >= 1)
           => q.resp.success = TRUE

C10_StalenessBoundary ==
    \A r \in Reqs :
        LET q == reqs[r]
        IN (/\ q.origin = "ingest"
            /\ IsArray(q.data.states) /\ Len(Items(q)) > 0
            /\ InvalidIdx(q) = {})
           => /\ q.data.timestamp = Some(q.enteredAt - maxDataAgeSeconds)
                   => /\ q.resp.kind # "throw"
                      /\ Len(q.states) = Len(Items(q))
                      /\ q.pc = "done" => q.resp.kind = "return"
              /\ q.data.timestamp = Some(q.enteredAt - maxDataAgeSeconds - 1)
                   => /\ q.pc = "done"
                      /\ q.resp.kind = "throw"
                      /\ q.resp.statusCode = 400
                      /\ q.resp.message = "Data is too old"
                      /\ q.states = <<>>
                      /\ HistoryOfCall(r) = {}

\* a batch declared exactly maxDataAgeSeconds old, submitted after the clock
\* has advanced, was accepted and its records processed
C10_Witness ==
    \E r \in Reqs :
        LET q == reqs[r]
        IN /\ q.origin = "ingest" /\ q.pc = "done"
           /\ q.enteredAt > StartTime
           /\ q.data.timestamp = Some(q.enteredAt - maxDataAgeSeconds)
           /\ q.resp.kind = "return"
           /\ q.resp.processed = Len(Items(q))
           /\ Cardinality(HistoryOfCall(r)) = Len(Items(q))

-----------------------------------------------------------------------------
(* Staleness as a frame condition (specification SpecSingle) *)

\* the batch declares a timestamp and that timestamp is older than the
\* configured max age when the call is made
DeclaredTooOld(q) ==
    /\ q.data.timestamp # Null
    /\ q.enteredAt - Val(q.data.timestamp) > maxDataAgeSeconds

MergesOfCall(r) == {i \in 1..Len(mergeLog) : mergeLog[i].by[1] = r}

\* C11: a batch whose declared timestamp is older than the configured max
\* age is rejected wholesale before any per-record processing: the call ends
\* with an error, no observation of the batch is transformed, merged or
\* appended to the history.
C11_StaleBatchRejectedWholesale ==
    \A r \in Reqs :
        LET q == reqs[r]
        IN (q.origin = "ingest" /\ DeclaredTooOld(q))
           => /\ q.pc = "done"
              /\ q.resp.kind = "throw"
              /\ q.resp.statusCode = 400
              /\ q.states = <<>>
              /\ MergesOfCall(r) = {}
              /\ HistoryOfCall(r) = {}

-----------------------------------------------------------------------------
(* Properties of POST /data (specification SpecRoute) *)

\* ingestData has been invoked for the request
Invoked(q) == q.feederId # "none"

\* the Authorization header carries, as a bearer token, the key of a feeder
\* that is registered and neither suspended nor inactive
Authorized(q) ==
    /\ q.authorization # Null
    /\ Len(q.authorization) = 2
    /\ q.authorization[1] = "Bearer"
    /\ q.authorization[2] \in DOMAIN FeederRegistry
    /\ FeederRegistry[q.authorization[2]].status
           \notin {Some("suspended"), Some("inactive")}

\* C12: identity and authorization errors reject the request before any
\* ingestion logic runs: ingestData is invoked only for requests whose
\* credential is well formed and resolves to a feeder that is neither
\* suspended nor inactive, and for that feeder; every other request ends
\* with a 401 or 403 and nothing of it is processed.
C12_AuthBeforeIngestion ==
    \A r \in Reqs :
        LET q == reqs[r]
        IN q.origin = "route" =>
             /\ Invoked(q) =>
                   /\ Authorized(q)
                   /\ q.feederId = FeederRegistry[q.authorization[2]].feeder_id
             /\ (~Authorized(q) /\ q.pc = "done") =>
                   /\ q.resp.kind = "reject"
                   /\ q.resp.statusCode \in {401, 403}
                   /\ q.states = <<>>
                   /\ q.stats = "none" /\ q.lastSeen = "none"

\* the request of a suspended feeder was rejected with 403 without reaching
\* ingestData while the request of an active feeder was ingested
C12_Witness ==
    \E r, s \in Reqs :
        /\ reqs[r].origin = "route" /\ reqs[r].pc = "done"
        /\ reqs[r].authorization = <<"Bearer", KeySuspended>>
        /\ reqs[r].resp.statusCode = 403
        /\ ~Invoked(reqs[r])
        /\ reqs[s].origin = "route" /\ reqs[s].pc = "done"
        /\ Invoked(reqs[s])
        /\ reqs[s].resp.kind = "return"
        /\ reqs[s].resp.processed = 1

-----------------------------------------------------------------------------
(* Properties of the daily statistics (specification SpecStats) *)

\* the calls whose statistics statement has executed for feeder f on date d
StatsDone(f, d) ==
    {r \in Reqs : /\ reqs[r].stats = "done"
                  /\ reqs[r].feederId = f
                  /\ reqs[r].statsDate = d}

RECURSIVE SumOfCounts(_)
SumOfCounts(S) ==
    IF S = {} THEN 0
    ELSE LET r == CHOOSE x \in S : TRUE
         IN reqs[r].results.success + SumOfCounts(S \ {r})

MaxOfCounts(S) ==
    CHOOSE m \in {reqs[r].results.success : r \in S} :
        \A r \in S : reqs[r].results.success <= m

StatsDates == DateOf(StartTime)..DateOf(StartTime + MaxTicks)

\* C13: the increments of the daily statistics are atomic: whatever the
\* interleaving of the updates of concurrent batches of one feeder, the row
\* of (feeder, date) exists exactly when an update has executed and its
\* message count is the sum of all increments executed for it.
C13_NoLostIncrement ==
    \A f \in Feeders, d \in StatsDates :
        IF StatsDone(f, d) = {}
        THEN <<f, d>> \notin DOMAIN feeder_stats
        ELSE /\ <<f, d>> \in DOMAIN feeder_stats
             /\ feeder_stats[<<f, d>>].messages_received
                    = SumOfCounts(StatsDone(f, d))

\* two updates of the same feeder that were in flight together have both
\* executed on the same date
C13_Witness ==
    \E r, s \in Reqs :
        /\ r # s
        /\ s \in StatsDone(reqs[r].feederId, reqs[r].statsDate)
        /\ r \in StatsDone(reqs[r].feederId, reqs[r].statsDate)
        /\ reqs[r].results.success > 0 /\ reqs[s].results.success > 0
        /\ reqs[r].enteredAt = reqs[s].enteredAt
        /\ reqs[r].statsDate > DateOf(reqs[r].enteredAt)

\* C14: for each (feeder, date) the message count is the sum over the
\* updates and the unique-aircraft value is their maximum, not their sum.
C14_SumAndMax ==
    \A key \in DOMAIN feeder_stats :
        LET S == StatsDone(key[1], key[2])
        IN /\ S # {}
           /\ feeder_stats[key].messages_received = SumOfCounts(S)
           /\ feeder_stats[key].unique_aircraft = MaxOfCounts(S)

\* two updates of one (feeder, date): the unique-aircraft value is the larger
\* of the two and smaller than their sum
C14_Witness ==
    \E key \in DOMAIN feeder_stats :
        /\ Cardinality(StatsDone(key[1], key[2])) >= 2
        /\ feeder_stats[key].unique_aircraft < feeder_stats[key].messages_received
        /\ feeder_stats[key].unique_aircraft = MaxBatch

-----------------------------------------------------------------------------
(* Resubmission (specification SpecTwice) *)

IngestionTimestampAt(i) == mergeLog[i].row.ingestion_timestamp

\* calls r and s are two completed submissions of the same batch by the same
\* feeder, every record of which was accepted
SameBatchTwice(r, s) ==
    /\ r # s
    /\ reqs[r].origin = "ingest" /\ reqs[s].origin = "ingest"
    /\ reqs[r].pc = "done" /\ reqs[s].pc = "done"
    /\ reqs[r].data = reqs[s].data
    /\ reqs[r].feederId = reqs[s].feederId
    /\ reqs[r].resp.processed = Len(Items(reqs[r]))
    /\ reqs[s].resp.processed = Len(Items(reqs[s]))

\* C15: submitting the same valid batch twice yields two history entries per
\* record (one per submission), and at equal priority the canonical record
\* of each aircraft is the one written with the later ingestion timestamp.
C15_ResubmissionAppendsAndLastWins ==
    \A r, s \in Reqs :
        SameBatchTwice(r, s) =>
            \A k \in 1..Len(reqs[r].states) :
                LET a == reqs[r].states[k].state[1]
                IN /\ Cardinality(HistoryOf(r, k)) = 1
                   /\ Cardinality(HistoryOf(s, k)) = 1
                   /\ \A h \in HistoryOf(r, k) \cup HistoryOf(s, k) : h.state[1] = a
                   /\ a \in DOMAIN aircraft_states
                   /\ \A i \in MergeIdx(a) :
                         /\ IngestionTimestampAt(i)
                                <= aircraft_states[a].ingestion_timestamp
                         /\ (\A j \in MergeIdx(a) \ {i} :
                                IngestionTimestampAt(j) < IngestionTimestampAt(i))
                            => CanonicalFields(aircraft_states[a])
                                   = CanonicalFields(mergeLog[i].row)

\* the batch was submitted twice, the second submission merged a second
\* later: the canonical record carries the later ingestion timestamp and
\* every record has its two history entries
C15_Witness ==
    \E r, s \in Reqs :
        /\ SameBatchTwice(r, s)
        /\ failures = 0
        /\ \A k \in 1..Len(reqs[r].states) :
              LET a == reqs[r].states[k].state[1]
              IN /\ Cardinality(HistoryOf(r, k) \cup HistoryOf(s, k)) = 2
                 /\ aircraft_states[a].ingestion_timestamp = StartTime + 1
                 /\ \E i \in MergeIdx(a) : IngestionTimestampAt(i) = StartTime

\* the request was refused for a permanent validation failure: by the route
\* validators, by the batch validation, or by the main service
ValidationFailure(q) ==
    /\ q.pc = "done"
    /\ q.outage = "none"
    /\ q.resp.kind \in {"reject", "throw"}
    /\ q.resp.statusCode = 400

\* C16: transient unavailability of the downstream service is reported to
\* the caller with a 'service unavailable' signal (status 503), and that
\* signal is never the one given for a permanent validation failure.
C16_UnavailableIsDistinctSignal ==
    \A r \in Reqs :
        LET q == reqs[r]
        IN (q.origin = "route" /\ q.pc = "done") =>
              /\ q.outage # "none" =>
                    /\ q.resp.statusCode = 503
                    /\ q.resp.success = FALSE
              /\ ValidationFailure(q) => q.resp.statusCode # 503

C18_SideEffectsDoNotAffectResponse ==
    [][\A r \in Reqs :
          reqs[r].pc = "done" => reqs'[r].resp = reqs[r].resp]_vars

\* a submission was answered 200 with its records processed, and both its
\* statistics update and its last-seen update have failed since
C18_Witness ==
    \E r \in Reqs :
        LET q == reqs[r]
        IN /\ q.origin = "route" /\ q.pc = "done"
           /\ q.resp.kind = "return" /\ q.resp.statusCode = 200
           /\ q.resp.success = TRUE /\ q.resp.processed >= 1
           /\ q.stats = "failed"
           /\ q.lastSeen = "failed"

-----------------------------------------------------------------------------
(* Sub-batches (specification SpecSingle) *)

\* the per-record operations of a call that are in flight, and those that
\* have been started
InFlight(q) == {k \in DOMAIN q.ops : q.ops[k] \in {"upsert", "history"}}

Started(q) == {k \in DOMAIN q.ops : q.ops[k] # "waiting"}

\* C19: within one batch the per-record operations run in sub-batches of
\* fixed size: at most batchSize operations of the batch are in flight at
\* once, and operations of a further sub-batch are started only from the
\* yield to the event loop that follows the completion of the sub-batch
\* before it.
C19_SubBatchesWithYield ==
    [][\A r \in Reqs :
          /\ Cardinality(InFlight(reqs'[r])) <= batchSize
          /\ (reqs[r].pc # "idle" /\ Started(reqs'[r]) # Started(reqs[r]))
                => /\ reqs[r].pc = "yield"
                   /\ InFlight(reqs[r]) = {}
                   /\ Cardinality(Started(reqs[r])) >= batchSize
          /\ (reqs[r].pc = "running" /\ reqs'[r].pc = "done")
                => Started(reqs[r]) = DOMAIN reqs[r].ops]_vars

\* a batch longer than batchSize: its first sub-batch is complete, the loop
\* has yielded and the operations of the second sub-batch are in flight
C19_Witness ==
    \E r \in Reqs :
        LET q == reqs[r]
        IN /\ q.origin = "ingest" /\ q.pc = "running"
           /\ Len(q.states) > batchSize
           /\ Cardinality(Started(q) \ InFlight(q)) = batchSize
           /\ InFlight(q) # {}

-----------------------------------------------------------------------------
(* Termination (specification SpecSingleFair) *)

\* C20: no operation blocks indefinitely: every storage write is bounded by
\* a timeout, so the processing of a batch that has started always comes to
\* an end.
C20_BatchProcessingTerminates ==
    \A r \in Reqs : (reqs[r].pc = "running") ~> (reqs[r].pc = "done")

-----------------------------------------------------------------------------
(* The validator, the normalizer and the quality score applied to single     *)
(* observations                                                              *)

\* an observation with every optional field populated
FullState ==
    [BaseState EXCEPT !.icao24 = AddrLower,
                      !.callsign = Some(<<"U","A","L","1">>),
                      !.origin_country = Some("US"),
                      !.time_position = Some(StartTime),
                      !.longitude = Some(-122), !.latitude = Some(37),
                      !.baro_altitude = Some(10000),
                      !.geo_altitude = Some(10100),
                      !.velocity = Some(250), !.true_track = Some(90),
                      !.vertical_rate = Some(5),
                      !.squawk = Some(<<"7","7","0","0">>),
                      !.position_source = Some(1), !.category = Some(3)]

OptionalKeys ==
    {"callsign", "origin_country", "time_position", "longitude", "latitude",
     "baro_altitude", "on_ground", "velocity", "true_track", "vertical_rate",
     "sensors", "geo_altitude", "squawk", "spi", "position_source", "category"}

\* {icao24, last_contact}: every other key is missing from the object
MinimalState == [BaseState EXCEPT !.icao24 = AddrLower, !.absent = OptionalKeys]

\* the same observation with every other key present and null
NullState == [BaseState EXCEPT !.icao24 = AddrLower]

\* the values around the two ends of each numeric rule
NumericEdges ==
    [latitude |-> {-91, -90, 90, 91}, longitude |-> {-181, -180, 180, 181},
     baro_altitude |-> {-1501, -1500, 60000, 60001},
     geo_altitude |-> {-1501, -1500, 60000, 60001},
     velocity |-> {-1, 0, 1500, 1501}, true_track |-> {-1, 0, 359, 360, 361},
     vertical_rate |-> {-101, -100, 100, 101}, category |-> {-1, 0, 19, 20},
     position_source |-> {-1, 0, 3, 4}, time_position |-> {-1, 0},
     last_contact |-> {-1, 0}]

EdgeVariants ==
    UNION {{[FullState EXCEPT ![f] = Some(v)] : v \in NumericEdges[f]} :
              f \in DOMAIN NumericEdges}

Icao24Variants ==
    {<<>>, Rep("a", 5), AddrLower, AddrUpper, Rep("a", 7),
     <<"a","b","c","1","2","g">>, <<" ","a","b","c","1","2">>}

SquawkVariants ==
    {<<>>, <<"7","7","0">>, <<"7","7","0","0">>, <<"7","8","0","0">>,
     <<"7","7","0","0","0">>}

CallsignVariants ==
    {<<>>, <<"U">>, <<"u","a","l","1">>, Rep("A", 8), Rep("A", 9),
     <<"U","A","-","1">>, <<"U","A","L"," ">>}

TextVariants ==
         {[FullState EXCEPT !.icao24 = a] : a \in Icao24Variants}
    \cup {[FullState EXCEPT !.squawk = Some(q)] : q \in SquawkVariants}
    \cup {[FullState EXCEPT !.callsign = Some(c)] : c \in CallsignVariants}

Observations ==
    {FullState, MinimalState, NullState} \cup EdgeVariants \cup TextVariants

\* the lists handed to the three functions
ObservationLists ==
    {<<o>> : o \in Observations}
    \cup {<<>>, <<FullState, NullState>>, <<FullState, NullState, NullState>>}

InitPure ==
    /\ now = StartTime
    /\ client = NoClient
    /\ poller = NoPoller
    /\ aircraft_states = <<>>
    /\ aircraft_states_history = {}
    /\ feeder_stats = <<>>
    /\ failures = 0
    /\ mergeLog = <<>>
    /\ \E items \in ObservationLists :
          reqs = [r \in Reqs |->
                    IF r = 1
                    THEN [IdleReq EXCEPT
                             !.pc = "pure", !.origin = "pure",
                             !.data = [timestamp |-> Null,
                                       states |-> [array |-> TRUE,
                                                   items |-> items]]]
                    ELSE IdleReq]

PureItems(r) == reqs[r].data.states.items

\* validateAircraftState(state, 0) on the first observation of the list
ValidateState(r) ==
    /\ reqs[r].pc = "pure"
    /\ IsNull(reqs[r].validation)
    /\ PureItems(r) # <<>>
    /\ reqs' = [reqs EXCEPT ![r].validation =
                   Some(validateAircraftState(Head(PureItems(r)), 0))]
    /\ UNCHANGED <<client, poller, now, aircraft_states, aircraft_states_history, feeder_stats,
                   failures, mergeLog>>

\* transformToOpenSkyFormat(state) on the first observation of the list
TransformState(r) ==
    /\ reqs[r].pc = "pure"
    /\ IsNull(reqs[r].vector)
    /\ PureItems(r) # <<>>
    /\ LET state == Head(PureItems(r))
       IN reqs' = [reqs EXCEPT ![r].vector =
                      Some(IF TransformThrows(state)
                           THEN [threw |-> TRUE, value |-> <<>>]
                           ELSE [threw |-> FALSE,
                                 value |-> transformToOpenSkyFormat(state, now)])]
    /\ UNCHANGED <<client, poller, now, aircraft_states, aircraft_states_history, feeder_stats,
                   failures, mergeLog>>

\* calculateDataQuality(states) on the whole list
ScoreStates(r) ==
    /\ reqs[r].pc = "pure"
    /\ IsNull(reqs[r].quality)
    /\ reqs' = [reqs EXCEPT ![r].quality =
                   Some(calculateDataQuality(PureItems(r)))]
    /\ UNCHANGED <<client, poller, now, aircraft_states, aircraft_states_history, feeder_stats,
                   failures, mergeLog>>

NextPure ==
    \/ ValidateState(1)
    \/ TransformState(1)
    \/ ScoreStates(1)

SpecPure == InitPure /\ [][NextPure]_vars

-----------------------------------------------------------------------------
(* Properties of the validator (specification SpecPure) *)

Validated(r) == reqs[r].pc = "pure" /\ ~IsNull(reqs[r].validation)

WithinOrAbsent(x, lo, hi) == IsNull(x) \/ (lo <= Val(x) /\ Val(x) <= hi)

AllIn(s, chars) == \A i \in 1..Len(s) : s[i] \in chars

\* the rules of the claim, as the claim words them
EveryRuleHolds(s) ==
    /\ Len(s.icao24) = 6 /\ AllIn(s.icao24, HexDigits)
    /\ WithinOrAbsent(s.latitude, -90, 90)
    /\ WithinOrAbsent(s.longitude, -180, 180)
    /\ WithinOrAbsent(s.baro_altitude, -1500, 60000)
    /\ WithinOrAbsent(s.geo_altitude, -1500, 60000)
    /\ WithinOrAbsent(s.velocity, 0, 1500)
    /\ IsNull(s.true_track) \/ (0 <= Val(s.true_track) /\ Val(s.true_track) < 360)
    /\ WithinOrAbsent(s.vertical_rate, -100, 100)
    /\ WithinOrAbsent(s.category, 0, 19)
    /\ WithinOrAbsent(s.position_source, 0, 3)
    /\ IsNull(s.squawk)
          \/ (Len(Val(s.squawk)) = 4 /\ AllIn(Val(s.squawk), OctalDigits))
    /\ IsNull(s.callsign)
          \/ (Len(Val(s.callsign)) <= 8 /\ AllIn(Val(s.callsign), AlphaNum))

\* C21: the validator passes an observation exactly when every rule holds:
\* address of exactly 6 hex digits, latitude in [-90, 90], longitude in
\* [-180, 180], each altitude in [-1500, 60000], velocity in [0, 1500],
\* heading in [0, 360) with the upper bound excluded, vertical rate in
\* [-100, 100], category in [0, 19], position source in [0, 3], a present
\* squawk of exactly 4 octal digits, a present callsign of at most 8
\* alphanumeric characters.
C21_ValidatorPassesExactlyConformant ==
    \A r \in Reqs :
        Validated(r) =>
            (Val(reqs[r].validation).valid <=> EveryRuleHolds(Head(PureItems(r))))

-----------------------------------------------------------------------------
(* Properties of the quality score (specification SpecPure) *)

Scored(r) == reqs[r].pc = "pure" /\ ~IsNull(reqs[r].quality)

\* the keys calculateDataQuality looks at
ScoredKeys ==
    {"latitude", "longitude", "baro_altitude", "geo_altitude", "velocity",
     "callsign", "squawk", "vertical_rate"}

Carries(s, f) == f \notin s.absent /\ ~IsNull(s[f])

FullyPopulated(s) == \A f \in ScoredKeys : Carries(s, f)

\* nothing but the two required keys carries a value
CarriesOnlyRequired(s) == \A f \in ScoredKeys : ~Carries(s, f)

\* C22: the quality score of a fully-populated observation is 100, and the
\* quality score of an observation that carries only icao24 and last_contact
\* is 0.
C22_QualityScoreExtremes ==
    \A r \in Reqs :
        (Scored(r) /\ Len(PureItems(r)) = 1) =>
            LET s == Head(PureItems(r))
            IN /\ FullyPopulated(s) => Val(reqs[r].quality) = 100
               /\ CarriesOnlyRequired(s) => Val(reqs[r].quality) = 0

-----------------------------------------------------------------------------
(* Properties of the normalizer (specification SpecPure) *)

Transformed(r) == reqs[r].pc = "pure" /\ ~IsNull(reqs[r].vector)

OutOfRange(x, lo, hi) == ~IsNull(x) /\ (Val(x) < lo \/ Val(x) > hi)

BadCategory(s) == OutOfRange(s.category, 0, 19)

BadPositionSource(s) == OutOfRange(s.position_source, 0, 3)

\* C23 as stated: the normalizer never rejects an observation for an
\* out-of-range category or position source; it sets that field to null in
\* the canonical vector.
C23_OutOfRangeBecomesNull ==
    \A r \in Reqs :
        Transformed(r) =>
            LET s == Head(PureItems(r))
                out == Val(reqs[r].vector)
            IN (BadCategory(s) \/ BadPositionSource(s)) =>
                  /\ ~out.threw
                  /\ BadCategory(s) => IsNull(out.value[18])
                  /\ BadPositionSource(s) => IsNull(out.value[17])

\* C23 (amended): the normalizer never rejects an observation for an
\* out-of-range category or position source; an out-of-range category becomes
\* null and an out-of-range position source becomes 0 in the canonical
\* vector, and every other field is what it is for an in-range value.
C23_OutOfRangeCategoryNullPositionZero ==
    \A r \in Reqs :
        Transformed(r) =>
            LET s == Head(PureItems(r))
                out == Val(reqs[r].vector)
            IN (BadCategory(s) \/ BadPositionSource(s)) =>
                  /\ ~out.threw
                  /\ BadCategory(s) => IsNull(out.value[18])
                  /\ BadPositionSource(s) => out.value[17] = Some(0)
                  /\ out.value =
                        [transformToOpenSkyFormat(FullState, now)
                            EXCEPT ![17] = out.value[17], ![18] = out.value[18]]

\* an observation with an out-of-range position source has been normalized
\* and carries position source 0
C23_Witness ==
    \E r \in Reqs :
        /\ Transformed(r)
        /\ BadPositionSource(Head(PureItems(r)))
        /\ Val(reqs[r].vector).value[17] = Some(0)

-----------------------------------------------------------------------------
(* The feeder SDK: FeederClient of clients/universal-feeder-client.ts.       *)
(* Times are in milliseconds; an aircraft is named by the number of the      *)
(* queueAircraft call that passed it.                                        *)

\* bounds: the calls of queueAircraft, the direct calls of submitBatch, and
\* the seconds that pass while no timer is pending
MaxQueued == 3
MaxSubmits == 1
MaxIdleSeconds == 2

\* the options a caller may pass to the constructor: retry counts that are
\* absent, zero, negative and positive
RetryConfigs ==
    [retryAttempts : {Null, Some(-1), Some(0), Some(1), Some(2)},
     batchSize : {Null}]

\* batch sizes that are absent and within reach of the queue
QueueConfigs ==
    [retryAttempts : {Some(1)}, batchSize : {Null, Some(2)}]

\* constructor: `config.retryAttempts || 3`, `config.batchSize || 50`
FeederClientConfig(config) ==
    [retryAttempts |-> IF Falsy(config.retryAttempts) THEN 3
                       ELSE Val(config.retryAttempts),
     batchSize |-> IF Falsy(config.batchSize) THEN 50
                   ELSE Val(config.batchSize)]

\* new FeederClient(config); queuedAt (when each aircraft was queued) and
\* lastFlush (when and from where the last batch was taken off the queue) are
\* history fields
FeederClient(config) ==
    [constructed |-> TRUE, config |-> FeederClientConfig(config),
     batchQueue |-> <<>>, batchTimer |-> Null, clock |-> 0, idle |-> 0,
     calls |-> <<>>, queuedAt |-> <<>>, lastFlush |-> Null]

\* what an attempt can end with: a response, or an error with or without a
\* response status
PostErrors ==
    {[response |-> Null], [response |-> Some(400)], [response |-> Some(499)],
     [response |-> Some(500)]}

OkResponse == [response |-> Some(200)]

GenericError == [response |-> Null, message |-> "Failed to submit data after retries"]

\* an error test that retries whatever the status
IsClientErrorNever(error) == FALSE

\* error.response?.status >= 400 && error.response?.status < 500
IsClientError(error) ==
    ~IsNull(error.response) /\ Val(error.response) >= 400
                            /\ Val(error.response) < 500

RECURSIVE Pow2(_)
Pow2(n) == IF n = 0 THEN 1 ELSE 2 * Pow2(n - 1)

\* submitBatch(aircraft) up to its first await: the loop is entered when
\* 0 < retryAttempts and the first POST is issued; otherwise the function
\* throws `lastError || new Error(...)` at once.  outcomes is a history field:
\* what each POST attempt ended with.
submitBatch(c, aircraft) ==
    IF 0 < c.config.retryAttempts
    THEN [batch |-> aircraft, pc |-> "post", attempt |-> 0, wake |-> 0,
          lastError |-> Null, error |-> Null, outcomes |-> <<>>]
    ELSE [batch |-> aircraft, pc |-> "thrown", attempt |-> 0, wake |-> 0,
          lastError |-> Null, error |-> Some(GenericError), outcomes |-> <<>>]

\* a flush that submits the queue and leaves it as it is
flushBatchKeepsQueue(c, by) ==
    LET c1 == [c EXCEPT !.batchTimer = Null]
    IN IF c1.batchQueue = <<>> THEN c1
       ELSE [c1 EXCEPT !.calls = Append(@, submitBatch(c1, c1.batchQueue)),
                       !.lastFlush = Some([at |-> c1.clock, by |-> by])]

\* flushBatch(), called from queueAircraft ("size"), from the timer callback
\* ("timer") or by the application ("manual"): the timer is cleared, and a
\* non-empty queue is copied into a batch, emptied and submitted
flushBatch(c, by) ==
    LET c1 == [c EXCEPT !.batchTimer = Null]
    IN IF c1.batchQueue = <<>> THEN c1
       ELSE [c1 EXCEPT !.batchQueue = <<>>,
                       !.calls = Append(@, submitBatch(c1, c1.batchQueue)),
                       !.lastFlush = Some([at |-> c1.clock, by |-> by])]

\* a queueAircraft that leaves every flush to the timer
queueAircraftTimerOnly(c, aircraft) ==
    LET c1 == [c EXCEPT !.batchQueue = Append(@, aircraft),
                        !.queuedAt = Append(@, c.clock)]
    IN IF IsNull(c1.batchTimer)
       THEN [c1 EXCEPT !.batchTimer = Some(c1.clock + 1000)]
       ELSE c1

\* queueAircraft(aircraft)
queueAircraft(c, aircraft) ==
    LET c1 == [c EXCEPT !.batchQueue = Append(@, aircraft),
                        !.queuedAt = Append(@, c.clock)]
    IN IF Len(c1.batchQueue) >= c1.config.batchSize THEN flushBatch(c1, "size")
       ELSE IF IsNull(c1.batchTimer)
            THEN [c1 EXCEPT !.batchTimer = Some(c1.clock + 1000)]
            ELSE c1

InitClient(configs) ==
    /\ now = StartTime
    /\ aircraft_states = <<>>
    /\ aircraft_states_history = {}
    /\ feeder_stats = <<>>
    /\ reqs = [r \in Reqs |-> IdleReq]
    /\ failures = 0
    /\ mergeLog = <<>>
    /\ poller = NoPoller
    /\ \E config \in configs : client = FeederClient(config)

\* the application calls submitBatch itself, with a batch of one aircraft
SubmitBatch ==
    /\ Len(client.calls) < MaxSubmits
    /\ client' = [client EXCEPT
                    !.calls = Append(@, submitBatch(client, <<Len(@) + 1>>))]
    /\ UNCHANGED <<server, poller>>

\* the application passes one more aircraft to queueAircraft
QueueAircraft ==
    /\ Len(client.queuedAt) < MaxQueued
    /\ client' = queueAircraft(client, Len(client.queuedAt) + 1)
    /\ UNCHANGED <<server, poller>>

\* the application calls flushBatch itself
ManualFlush ==
    /\ client.batchQueue # <<>> \/ ~IsNull(client.batchTimer)
    /\ client' = flushBatch(client, "manual")
    /\ UNCHANGED <<server, poller>>

\* the callback of the batch timer runs
TimerFlush ==
    /\ ~IsNull(client.batchTimer)
    /\ client.clock >= Val(client.batchTimer)
    /\ client' = flushBatch(client, "timer")
    /\ UNCHANGED <<server, poller>>

Calls == DOMAIN client.calls

\* the POST of call k is answered with a 2xx response
PostOk(k) ==
    /\ k \in Calls
    /\ client.calls[k].pc = "post"
    /\ client' = [client EXCEPT
                    !.calls[k].pc = "returned",
                    !.calls[k].outcomes = Append(@, OkResponse)]
    /\ UNCHANGED <<server, poller>>

\* the catch block of the loop of submitBatch
CatchPostError(c, call, error) ==
    LET caught == [call EXCEPT !.lastError = Some(error),
                               !.outcomes = Append(@, error)]
    IN IF IsClientError(error)
       THEN [caught EXCEPT !.pc = "thrown", !.error = Some(error)]
       ELSE IF call.attempt < c.config.retryAttempts - 1
            THEN [caught EXCEPT !.pc = "sleep",
                                !.wake = c.clock + Pow2(call.attempt) * 1000]
            ELSE [caught EXCEPT !.pc = "thrown", !.attempt = @ + 1,
                                !.error = Some(error)]

\* the POST of call k fails: no response (network error, timeout) or a
\* response with a status outside 2xx
PostFails(k) ==
    /\ k \in Calls
    /\ client.calls[k].pc = "post"
    /\ \E error \in PostErrors :
          client' = [client EXCEPT
                        !.calls[k] = CatchPostError(client, @, error)]
    /\ UNCHANGED <<server, poller>>

\* the backoff of call k is over: the next iteration issues the next POST
BackoffEnds(k) ==
    /\ k \in Calls
    /\ client.calls[k].pc = "sleep"
    /\ client.clock >= client.calls[k].wake
    /\ client' = [client EXCEPT !.calls[k].pc = "post",
                                !.calls[k].attempt = @ + 1]
    /\ UNCHANGED <<server, poller>>

\* the times at which a pending timer is due
DueTimes ==
    (IF IsNull(client.batchTimer) THEN {} ELSE {Val(client.batchTimer)})
    \cup {client.calls[k].wake : k \in {j \in Calls : client.calls[j].pc = "sleep"}}

\* a second passes; a timer that is due runs before the clock moves on
ClientTick ==
    /\ \A due \in DueTimes : client.clock < due
    /\ DueTimes = {} => client.idle < MaxIdleSeconds
    /\ client' = [client EXCEPT !.clock = @ + 1000,
                                !.idle = IF DueTimes = {} THEN @ + 1 ELSE @]
    /\ UNCHANGED <<server, poller>>

\* the POST attempts and backoffs of the calls in flight
Attempts ==
    \/ \E k \in Calls : PostOk(k)
    \/ \E k \in Calls : PostFails(k)
    \/ \E k \in Calls : BackoffEnds(k)

\* direct calls of submitBatch under every retry configuration
NextSubmit ==
    \/ SubmitBatch
    \/ Attempts
    \/ ClientTick

SpecSubmit == InitClient(RetryConfigs) /\ [][NextSubmit]_vars

\* queueAircraft, flushBatch and the timer, with one attempt per submission
\* (no backoff is ever started)
NextQueue ==
    \/ QueueAircraft
    \/ ManualFlush
    \/ TimerFlush
    \/ \E k \in Calls : PostOk(k)
    \/ \E k \in Calls : PostFails(k)
    \/ ClientTick

SpecQueue == InitClient(QueueConfigs) /\ [][NextQueue]_vars

-----------------------------------------------------------------------------
(* Properties of submitBatch (specification SpecSubmit) *)

Is4xx(o) == ~IsNull(o.response) /\ Val(o.response) \in 400..499

Is2xx(o) == ~IsNull(o.response) /\ Val(o.response) \in 200..299

\* a network error (no response) or a 5xx response
IsTransient(o) == IsNull(o.response) \/ Val(o.response) \in 500..599

Finished(call) == call.pc \in {"returned", "thrown"}

\* the POST attempts of a call: those that have ended and the one in flight
PostsIssued(call) == Len(call.outcomes) + (IF call.pc = "post" THEN 1 ELSE 0)

\* C24: submitBatch retries after network errors and 5xx responses (while
\* attempts remain), but when the server answers an attempt with a 4xx status
\* it throws that error immediately and makes no further attempt.
C24_RetryTransientThrowOn4xx ==
    \A k \in Calls :
        LET call == client.calls[k]
            o == call.outcomes
        IN \A i \in 1..Len(o) :
              /\ Is4xx(o[i]) =>
                    /\ i = Len(o)
                    /\ call.pc = "thrown"
                    /\ call.error = Some(o[i])
              /\ (IsTransient(o[i]) /\ i < client.config.retryAttempts) =>
                    (i < PostsIssued(call) \/ call.pc = "sleep")

\* a call has retried after a transient failure and was then answered with a
\* 4xx status
C24_Witness ==
    \E k \in Calls :
        LET call == client.calls[k]
            o == call.outcomes
        IN /\ Len(o) >= 2
           /\ IsTransient(o[1])
           /\ Is4xx(o[Len(o)])
           /\ call.pc = "thrown"


\* The progress the code guarantees to a call of submitBatch: every POST
\* ends (axios is created with timeout `config.timeout || 10000`), and the
\* backoff timers run as time passes.
SpecSubmitFair ==
    /\ SpecSubmit
    /\ WF_vars(Attempts)
    /\ WF_vars(ClientTick)

\* what holds of the attempts of a call, and of its end
AttemptsWithinConfig(call) ==
    LET o == call.outcomes
    IN /\ Len(o) <= client.config.retryAttempts
       /\ Finished(call) => Len(o) >= 1
       /\ call.pc = "returned" =>
             /\ Is2xx(o[Len(o)])
             /\ \A i \in 1..(Len(o) - 1) : ~Is2xx(o[i])
       /\ call.pc = "thrown" =>
             /\ ~Is2xx(o[Len(o)])
             /\ call.error = Some(o[Len(o)])

\* C28: submitBatch always terminates: for every configured retryAttempts it
\* performs at least one and at most retryAttempts POST attempts, and then
\* either returns the first successful response or throws the error of the
\* last attempt.
C28_SubmitBatchTerminates ==
    /\ [](\A k \in Calls : AttemptsWithinConfig(client.calls[k]))
    /\ \A k \in 1..MaxSubmits :
          (k \in Calls) ~> (k \in Calls /\ Finished(client.calls[k]))

-----------------------------------------------------------------------------
(* Properties of the queue of the SDK (specification SpecQueue) *)

\* the batch of the latest submitBatch call
LastBatch == client.calls[Len(client.calls)].batch

Count(seq, a) == Cardinality({i \in 1..Len(seq) : seq[i] = a})

RECURSIVE CountInCalls(_, _)
CountInCalls(calls, a) ==
    IF calls = <<>> THEN 0
    ELSE Count(Head(calls).batch, a) + CountInCalls(Tail(calls), a)

\* C27: every aircraft passed to queueAircraft is included in exactly one
\* submitBatch call: it is never submitted twice, even when a size-triggered
\* flush and a timer-triggered or manual flush overlap, and it never stays in
\* the queue without a pending flush.
C27_QueuedAircraftSubmittedOnce ==
    /\ \A a \in 1..Len(client.queuedAt) :
          /\ CountInCalls(client.calls, a) <= 1
          /\ Count(client.batchQueue, a) + CountInCalls(client.calls, a) = 1
    /\ client.batchQueue # <<>> => ~IsNull(client.batchTimer)

\* a size-triggered flush has started a submission while the submission of a
\* timer-triggered or manual flush is still in flight
C27_Witness ==
    /\ Len(client.calls) >= 2
    /\ ~IsNull(client.lastFlush)
    /\ Val(client.lastFlush).by = "size"
    /\ client.calls[Len(client.calls) - 1].pc = "post"
    /\ Len(client.calls[Len(client.calls) - 1].batch) < client.config.batchSize
    /\ client.calls[Len(client.calls)].pc = "post"

-----------------------------------------------------------------------------
(* One batch with two observations of the same aircraft in one sub-batch     *)

\* a deployment whose BATCH_SIZE leaves room for two records in a sub-batch
WideBatchSize == batchSize + 1

SampleB2 == [SampleB EXCEPT !.latitude = Some(41)]

\* observations 1 and 2 are of the same aircraft, the others of another one
DuplicateBatch(n) ==
    [k \in 1..n |-> IF k = 1 THEN SampleA1
                    ELSE IF k = 2 THEN SampleA2
                    ELSE IF k = 3 THEN SampleB ELSE SampleB2]

DuplicatePayloads ==
    {[timestamp |-> Null,
      states |-> [array |-> TRUE, items |-> DuplicateBatch(WideBatchSize + 1)]]}

InitWide ==
    /\ now = StartTime
    /\ client = NoClient
    /\ poller = NoPoller
    /\ aircraft_states = <<>>
    /\ aircraft_states_history = {}
    /\ feeder_stats = <<>>
    /\ reqs = [r \in Reqs |-> [IdleReq EXCEPT !.batchSize = WideBatchSize]]
    /\ failures = 0
    /\ mergeLog = <<>>

\* the batch arrives from feeder f1
IngestDuplicates(r) == IngestDataFrom(r, {"f1"}, DuplicatePayloads)

NextWide ==
    \/ IngestDuplicates(1)
    \/ Pipeline(1)
    \/ Tick

SpecWide == InitWide /\ [][NextWide]_vars

-----------------------------------------------------------------------------
(* Properties of a batch with a repeated address (specification SpecWide) *)

\* observation k is the last one of its aircraft in the batch of call q, and
\* not the only one
LastOfSeveral(q, k) ==
    /\ \E j \in 1..(k - 1) : q.states[j].state[1] = q.states[k].state[1]
    /\ \A j \in (k + 1)..Len(q.states) : q.states[j].state[1] # q.states[k].state[1]

\* C26: when one batch contains two observations for the same transponder
\* address, after the batch has been processed (every record accepted) the
\* canonical record equals the observation that appears later in the batch.
C26_LaterObservationInBatchWins ==
    \A r \in Reqs :
        LET q == reqs[r]
        IN (q.origin = "ingest" /\ q.pc = "done"
               /\ q.results.success = Len(q.states)) =>
              \A k \in 1..Len(q.states) :
                  LastOfSeveral(q, k) =>
                      LET item == q.states[k]
                          a == item.state[1]
                      IN /\ a \in DOMAIN aircraft_states
                         /\ aircraft_states[a].state =
                               InsertRow(item.state, item.feederId,
                                         q.sourcePriority, now).state

-----------------------------------------------------------------------------
(* The polling script around the SDK (part_014): start, pollAndSubmit,       *)
(* shouldSkipPoll, shutdown.  Times are in milliseconds.                     *)

\* bound: the seconds the poller is followed for
MaxPollerSeconds == 62

POLL_INTERVAL == 5000

MAX_CONSECUTIVE_ERRORS == 10

\* Date.now() when the script starts: at the beginning of a 30-second window
\* of the clock, and three seconds into one
PollerStarts == {0, 3000}

\* the state after start(): the initial timeout and the interval are set;
\* cycles holds the calls of pollAndSubmit that are past their guards and
\* not yet through their finally block; abandoned, lastTrigger and lastPoll
\* are history fields (the submissions that Promise.race has left running
\* behind it, the last timer callback, the last fetch started)
NewPoller(startedAt) ==
    [started |-> TRUE, isRunning |-> TRUE, isPolling |-> FALSE,
     consecutiveErrors |-> 0, clock |-> startedAt, startedAt |-> startedAt,
     initialPollDue |-> Some(startedAt + 1000),
     pollInterval |-> Some(startedAt + POLL_INTERVAL),
     lastMemoryCheck |-> startedAt, exited |-> FALSE,
     cycles |-> <<>>, abandoned |-> 0,
     lastTrigger |-> Null, lastPoll |-> Null]

\* shouldSkipPoll()
shouldSkipPoll(p) ==
    IF p.consecutiveErrors >= MAX_CONSECUTIVE_ERRORS
    THEN (p.clock % 30000) < 5000
    ELSE FALSE

\* a guard that lets a poll start whatever is running
CycleRunningIgnored(p) == FALSE

\* isPolling, as read by the interval callback and by pollAndSubmit
CycleRunning(p) == p.isPolling

\* checkMemory(): once a minute the memory is looked at; when it is critical
\* the process exits
checkMemory(p, critical) ==
    IF p.clock - p.lastMemoryCheck < 60000 THEN p
    ELSE [p EXCEPT !.lastMemoryCheck = p.clock, !.exited = critical]

\* pollAndSubmit() up to its first await (the GET to dump1090)
pollAndSubmit(p, critical) ==
    IF ~p.isRunning \/ CycleRunning(p) THEN p
    ELSE IF shouldSkipPoll(p) THEN p
    ELSE LET p1 == checkMemory([p EXCEPT !.isPolling = TRUE], critical)
         IN IF p1.exited THEN p1
            ELSE [p1 EXCEPT
                    !.cycles = Append(@, [pc |-> "fetching", startTime |-> p.clock,
                                          due |-> p.clock + 5000]),
                    !.lastPoll = Some([at |-> p.clock,
                                        errors |-> p.consecutiveErrors])]

\* the record of a timer callback: when it ran and whether it started a fetch
Triggered(p, p1) ==
    [p1 EXCEPT !.lastTrigger = Some([at |-> p.clock,
                                     polled |-> p1.lastPoll # p.lastPoll])]

InitPoller ==
    /\ now = StartTime
    /\ aircraft_states = <<>>
    /\ aircraft_states_history = {}
    /\ feeder_stats = <<>>
    /\ reqs = [r \in Reqs |-> IdleReq]
    /\ failures = 0
    /\ mergeLog = <<>>
    /\ client = NoClient
    /\ \E startedAt \in PollerStarts : poller = NewPoller(startedAt)

Alive == poller.started /\ ~poller.exited

\* the callback of the initial timeout: pollAndSubmit()
InitialPoll ==
    /\ Alive
    /\ ~IsNull(poller.initialPollDue)
    /\ poller.clock >= Val(poller.initialPollDue)
    /\ \E critical \in BOOLEAN :
          poller' = Triggered(poller,
                        [pollAndSubmit(poller, critical)
                            EXCEPT !.initialPollDue = Null])
    /\ UNCHANGED <<server, client>>

\* the callback of the interval: if (!isPolling) pollAndSubmit()
IntervalPoll ==
    /\ Alive
    /\ ~IsNull(poller.pollInterval)
    /\ poller.clock >= Val(poller.pollInterval)
    /\ \E critical \in BOOLEAN :
          poller' = Triggered(poller,
                        [(IF ~CycleRunning(poller)
                          THEN pollAndSubmit(poller, critical)
                          ELSE poller)
                            EXCEPT !.pollInterval = Some(Val(@) + POLL_INTERVAL)])
    /\ UNCHANGED <<server, client>>

Cycles == DOMAIN poller.cycles

WithoutCycle(cycles, k) ==
    [j \in 1..(Len(cycles) - 1) |-> IF j < k THEN cycles[j] ELSE cycles[j + 1]]

\* the finally block of cycle k
FinallyBlock(p, k) ==
    [p EXCEPT !.isPolling = FALSE, !.cycles = WithoutCycle(@, k)]

\* the catch block of cycle k, then its finally block unless the process
\* exits for a restart
CatchBlock(p, k) ==
    LET p1 == [p EXCEPT !.consecutiveErrors = @ + 1]
    IN IF p1.consecutiveErrors >= MAX_CONSECUTIVE_ERRORS * 2
       THEN [p1 EXCEPT !.exited = TRUE]
       ELSE FinallyBlock(p1, k)

\* dump1090 answers with no aircraft, or with none that has a position
FetchEmpty(k) ==
    /\ Alive
    /\ k \in Cycles
    /\ poller.cycles[k].pc = "fetching"
    /\ poller' = FinallyBlock([poller EXCEPT !.consecutiveErrors = 0], k)
    /\ UNCHANGED <<server, client>>

\* dump1090 answers with aircraft: client.submitBatch(states) is started and
\* raced against a timeout of 10 seconds
FetchOk(k) ==
    /\ Alive
    /\ k \in Cycles
    /\ poller.cycles[k].pc = "fetching"
    /\ poller' = [poller EXCEPT !.cycles[k].pc = "submitting",
                                !.cycles[k].due = poller.clock + 10000]
    /\ UNCHANGED <<server, client>>

\* the GET fails or times out
FetchFails(k) ==
    /\ Alive
    /\ k \in Cycles
    /\ poller.cycles[k].pc = "fetching"
    /\ poller' = CatchBlock(poller, k)
    /\ UNCHANGED <<server, client>>

\* submitBatch resolves before the timeout
SubmitOk(k) ==
    /\ Alive
    /\ k \in Cycles
    /\ poller.cycles[k].pc = "submitting"
    /\ poller' = FinallyBlock([poller EXCEPT !.consecutiveErrors = 0], k)
    /\ UNCHANGED <<server, client>>

\* submitBatch rejects before the timeout
SubmitFails(k) ==
    /\ Alive
    /\ k \in Cycles
    /\ poller.cycles[k].pc = "submitting"
    /\ poller' = CatchBlock(poller, k)
    /\ UNCHANGED <<server, client>>

\* the timeout wins the race ('Submit timeout'); submitBatch keeps running
SubmitTimeout(k) ==
    /\ Alive
    /\ k \in Cycles
    /\ poller.cycles[k].pc = "submitting"
    /\ poller.clock >= poller.cycles[k].due
    /\ poller' = CatchBlock([poller EXCEPT !.abandoned = @ + 1], k)
    /\ UNCHANGED <<server, client>>

\* SIGTERM / SIGINT: shutdown(signal)
Shutdown ==
    /\ Alive
    /\ poller.isRunning
    /\ poller' = [poller EXCEPT !.isRunning = FALSE, !.pollInterval = Null,
                                !.exited = TRUE]
    /\ UNCHANGED <<server, client>>

\* the times at which a timer or a timeout of the poller is due
PollerDueTimes ==
    (IF IsNull(poller.initialPollDue) THEN {} ELSE {Val(poller.initialPollDue)})
    \cup (IF IsNull(poller.pollInterval) THEN {} ELSE {Val(poller.pollInterval)})
    \cup {poller.cycles[k].due : k \in Cycles}

\* a second passes; what is due runs before the clock moves on
PollerTick ==
    /\ Alive
    /\ poller.clock - poller.startedAt < MaxPollerSeconds * 1000
    /\ \A due \in PollerDueTimes : poller.clock < due
    /\ poller' = [poller EXCEPT !.clock = @ + 1000]
    /\ UNCHANGED <<server, client>>

NextPoller ==
    \/ InitialPoll
    \/ IntervalPoll
    \/ \E k \in Cycles : FetchEmpty(k)
    \/ \E k \in Cycles : FetchOk(k)
    \/ \E k \in Cycles : FetchFails(k)
    \/ \E k \in Cycles : SubmitOk(k)
    \/ \E k \in Cycles : SubmitFails(k)
    \/ \E k \in Cycles : SubmitTimeout(k)
    \/ Shutdown
    \/ PollerTick

SpecPoller == InitPoller /\ [][NextPoller]_vars

-----------------------------------------------------------------------------
(* Properties of the poller (specification SpecPoller) *)

C30_PollsEvery30SecondsWhenDown ==
    [][(/\ poller'.lastPoll # poller.lastPoll
        /\ ~IsNull(poller.lastPoll)
        /\ Val(poller.lastPoll).errors >= MAX_CONSECUTIVE_ERRORS
        /\ Val(poller'.lastPoll).errors >= MAX_CONSECUTIVE_ERRORS)
       => Val(poller'.lastPoll).at - Val(poller.lastPoll).at >= 30000]_vars

====
